---- MODULE Spec2Model ----
(***************************************************************************)
(* Verification model of the multi-tenant WhatsApp gateway                 *)
(* (gideonsigilai/whatsapp-bot): the per-user store (storage/store.go),    *)
(* the session registry and connection state machine (whatsapp/client.go), *)
(* the HTTP status read (main.go) and the inbound-event fan-out.           *)
(*                                                                         *)
(* The module holds several specifications over one set of variables; each *)
(* specification moves the variables of the component it is about and      *)
(* leaves the others at their initial value.                               *)
(***************************************************************************)
EXTENDS Integers, Sequences, FiniteSets, TLC

(***************************************************************************)
(* Bounds of the model and program constants                               *)
(***************************************************************************)
\* number of goroutines that run store helpers concurrently
NumTasks == 2

\* number of appends made on top of the records found at start
MaxAppends == 3

\* number of goroutines that call GetUserClient concurrently
NumCallers == 3

\* number of inbound message events
MaxEvents == 2

\* number of outbound commands
MaxCommands == 2

\* number of reconnect requests, each running Initialize on its own goroutine
NumProcs == 2

\* length of the user ids tried
MaxIdLen == 2

\* store.go:231 "if len(data.Messages) > 500"
MessageCap == 500

Users == {"u1", "u2"}
Tasks == 1..NumTasks
Callers == 1..NumCallers
Procs == 1..NumProcs
StatKeys == {"messagesSent", "messagesReceived", "groupsJoined", "groupsLeft"}
Urls == {"http://w1", "http://w2"}

Min(a, b) == IF a < b THEN a ELSE b

(***************************************************************************)
(* State                                                                   *)
(***************************************************************************)
\* per-user store: storage/store.go
VARIABLES
    file,      \* data/users/<id>/data.json of every user
    task,      \* the goroutines running store helpers and handlers
    nextId,    \* source of fresh message and webhook ids
    file0,     \* history: the files when the program started
    arrived    \* history: ids of the messages appended per user, in order

\* session registry: whatsapp/client.go
VARIABLES
    userClients,  \* the map userId -> *ClientState (0: no entry)
    clientsLock,  \* the registry's sync.RWMutex
    guc,          \* the goroutines inside GetUserClient
    nextHandle,   \* the next ClientState to allocate
    created       \* history: ClientStates allocated per user

\* sessions and protocol clients: whatsapp/client.go, main.go
VARIABLES
    sess,      \* the ClientState of every user
    clients,   \* the whatsmeow clients created so far, by creating request
    paired,    \* per user: the device store holds a linked device
    proc,      \* the goroutines inside Initialize
    rd,        \* the GET /api/status handler
    stable     \* history: the session states during the read that agree with
               \* the fields read so far

\* inbound messages and webhook deliveries: whatsapp/client.go lines 93-156
VARIABLES
    inbound,   \* per user: the event handler working on a message event
    posts,     \* the delivery goroutines started so far, in starting order
    down       \* the webhook endpoints that answer with a network error

\* outbound commands: whatsapp/client.go lines 315-456
VARIABLES
    cmd        \* the command being served

\* user ids as they reach the store and the sessions
VARIABLES
    idCall     \* the last operation called with an id, and what it touched

\* the JavaScript store: the second half of whatsapp/client.go (db.js)
VARIABLES
    defaults,  \* the object DEFAULT_USER_DATA
    made       \* history: per user, what initUser wrote when it made the file

\* the HTTP interface: main.go, routes/api.js
VARIABLES
    page,      \* the last GET /api/messages request and the two answers to it
    reply      \* per request of POST /api/reconnect: the handler and its answer

\* the locks of the store: storage/store.go lines 20-50
VARIABLES
    userLocks, \* the map of per-user locks and the RWMutex that guards it
    userLock,  \* per user: the RWMutex of the record file
    lockTask   \* the goroutines inside a store call, lock by lock

storeVars == <<file, task, nextId, file0>>
registryVars == <<userClients, clientsLock, guc, nextHandle, created>>

sessionVars == <<sess, clients, paired, proc, rd, stable>>

ingestVars == <<inbound, posts, down>>

commandVars == <<cmd>>

idVars == <<idCall>>

jsVars == <<defaults, made>>

apiVars == <<page, reply>>

lockVars == <<userLocks, userLock, lockTask>>

\* what the session transitions leave alone
sessionFrame == <<task, nextId, file0, arrived, userClients, clientsLock, guc,
                  nextHandle, created, inbound, posts, down, cmd, idCall,
                  defaults, made, page, reply, userLocks, userLock, lockTask>>

vars == <<file, task, nextId, file0, arrived,
          userClients, clientsLock, guc, nextHandle, created,
          sess, clients, paired, proc, rd, stable,
          inbound, posts, down, cmd, idCall, defaults, made,
          page, reply, userLocks, userLock, lockTask>>

(***************************************************************************)
(* Session registry: whatsapp/client.go, GetUserClient                     *)
(***************************************************************************)
IdleCaller == [user |-> "u1", pc |-> "idle", uc |-> 0, ok |-> FALSE]

InitRegistry ==
    /\ userClients = [u \in Users |-> 0]
    /\ clientsLock = [readers |-> {}, writer |-> 0]
    /\ guc = [c \in Callers |-> IdleCaller]
    /\ nextHandle = 1
    /\ created = [u \in Users |-> 0]

\* a goroutine enters GetUserClient(userId)
GucCall(c, u) ==
    /\ guc[c].pc = "idle"
    /\ guc' = [guc EXCEPT ![c] = [IdleCaller EXCEPT !.user = u, !.pc = "rlock"]]
    /\ UNCHANGED <<userClients, clientsLock, nextHandle, created>>

\* line 68: clientsLock.RLock()
GucRLock(c) ==
    /\ guc[c].pc = "rlock"
    /\ clientsLock.writer = 0
    /\ clientsLock' = [clientsLock EXCEPT !.readers = @ \cup {c}]
    /\ guc' = [guc EXCEPT ![c].pc = "read"]
    /\ UNCHANGED <<userClients, nextHandle, created>>

\* lines 69-72: uc, ok := userClients[userId]; RUnlock(); if !ok
GucReadUnlock(c) ==
    /\ guc[c].pc = "read"
    /\ clientsLock' = [clientsLock EXCEPT !.readers = @ \ {c}]
    /\ guc' = [guc EXCEPT
                 ![c].uc = userClients[guc[c].user],
                 ![c].ok = userClients[guc[c].user] # 0,
                 ![c].pc = IF userClients[guc[c].user] # 0 THEN "done" ELSE "lock"]
    /\ UNCHANGED <<userClients, nextHandle, created>>

\* line 73: clientsLock.Lock()
GucLock(c) ==
    /\ guc[c].pc = "lock"
    /\ clientsLock.writer = 0
    /\ clientsLock.readers = {}
    /\ clientsLock' = [clientsLock EXCEPT !.writer = c]
    /\ guc' = [guc EXCEPT ![c].pc = "check"]
    /\ UNCHANGED <<userClients, nextHandle, created>>

\* mutant: the entry is created without looking it up again under the lock
GucCreateUnchecked(c) ==
    /\ guc[c].pc = "check"
    /\ userClients' = [userClients EXCEPT ![guc[c].user] = nextHandle]
    /\ nextHandle' = nextHandle + 1
    /\ created' = [created EXCEPT ![guc[c].user] = @ + 1]
    /\ guc' = [guc EXCEPT ![c].uc = nextHandle, ![c].pc = "unlock"]
    /\ UNCHANGED clientsLock

\* lines 74-80: look the entry up again; allocate a ClientState if absent
GucCheckCreate(c) ==
    /\ guc[c].pc = "check"
    /\ IF userClients[guc[c].user] # 0
       THEN /\ guc' = [guc EXCEPT ![c].uc = userClients[guc[c].user],
                                  ![c].ok = TRUE,
                                  ![c].pc = "unlock"]
            /\ UNCHANGED <<userClients, nextHandle, created>>
       ELSE /\ userClients' = [userClients EXCEPT ![guc[c].user] = nextHandle]
            /\ nextHandle' = nextHandle + 1
            /\ created' = [created EXCEPT ![guc[c].user] = @ + 1]
            /\ guc' = [guc EXCEPT ![c].uc = nextHandle, ![c].pc = "unlock"]
    /\ UNCHANGED clientsLock

\* lines 81-83: clientsLock.Unlock(); return uc
GucUnlock(c) ==
    /\ guc[c].pc = "unlock"
    /\ clientsLock' = [clientsLock EXCEPT !.writer = 0]
    /\ guc' = [guc EXCEPT ![c].pc = "done"]
    /\ UNCHANGED <<userClients, nextHandle, created>>

(***************************************************************************)
(* Per-user store: storage/store.go                                        *)
(***************************************************************************)
\* type UserStats: all four counters zero
ZeroStats == [k \in StatKeys |-> 0]

\* var DefaultUserData: empty non-nil slices and zero counters.  "nulls" is
\* the set of slice fields that are nil (encoded as JSON null).
DefaultUserData ==
    [messages |-> <<>>, groups |-> <<>>, webhooks |-> <<>>,
     stats |-> ZeroStats, nulls |-> {}]

\* the messageData map built by the handlers (the timestamp is left out)
Msg(id, from, to, body, type, contactName, isGroup, groupName) ==
    [id |-> id, from |-> from, to |-> to, body |-> body, type |-> type,
     contactName |-> contactName, isGroup |-> isGroup, groupName |-> groupName]

\* a webhook registration item
Hook(id, url) == [id |-> id, url |-> url, name |-> url]

\* the state of a record file on disk
MissingFile == [state |-> "missing", rec |-> DefaultUserData]
OkFile(rec) == [state |-> "ok", rec |-> rec]

\* a file that cannot be read or parsed
CorruptFile == [state |-> "corrupt", rec |-> DefaultUserData]

\* mutant: LoadUser returns what it parsed
LoadResultAsParsed(f) ==
    IF f.state = "ok" THEN f.rec ELSE DefaultUserData

\* LoadUser, lines 186-207: the record read under the user's read lock;
\* an unreadable or unparsable file gives the defaults, nil slices are
\* replaced by empty ones
LoadResult(f) ==
    IF f.state = "ok" THEN [f.rec EXCEPT !.nulls = {}] ELSE DefaultUserData

\* mutant: the cap keeps the first 500 messages instead of the last
PushDataKeepOldest(data, item) ==
    LET m == Append(data.messages, item)
    IN  [data EXCEPT
            !.messages = IF Len(m) > MessageCap THEN SubSeq(m, 1, MessageCap) ELSE m,
            !.nulls = @ \ {"messages"}]

\* PushToUserMessage, lines 229-233: append, then keep the last 500
PushData(data, item) ==
    LET m == Append(data.messages, item)
    IN  [data EXCEPT
            !.messages = IF Len(m) > MessageCap
                         THEN SubSeq(m, Len(m) - MessageCap + 1, Len(m))
                         ELSE m,
            !.nulls = @ \ {"messages"}]

\* IncrementStatUser, lines 240-249: a switch without default
IncrementData(data, statKey) ==
    IF statKey \in StatKeys
    THEN [data EXCEPT !.stats[statKey] = @ + 1]
    ELSE data

\* mutant: the reset empties the groups as well
ClearDataAndGroups(data) ==
    [data EXCEPT !.messages = <<>>, !.webhooks = <<>>, !.groups = <<>>,
                 !.stats = ZeroStats, !.nulls = {}]

\* ClearUserBotData, lines 255-257: groups are left as loaded
ClearData(data) ==
    [data EXCEPT !.messages = <<>>, !.webhooks = <<>>, !.stats = ZeroStats,
                 !.nulls = @ \ {"messages", "webhooks"}]

\* mutant: the reset goes over the records of all users
ClearEveryUserBotData(u) ==
    file' = [v \in Users |-> OkFile(ClearData(LoadResult(file[v])))]

\* ClearUserBotData, lines 253-259, called while no other helper of the user
\* is running: LoadUser (which creates a missing file), then SaveUser
ClearUserBotData(u) ==
    file' = [file EXCEPT ![u] = OkFile(ClearData(LoadResult(file[u])))]

\* RegisterWebhook, line 263: an unconditional append
RegisterData(data, hook) ==
    [data EXCEPT !.webhooks = Append(@, hook), !.nulls = @ \ {"webhooks"}]

\* mutant: unregister drops every webhook of the user
UnregisterDataAll(data, hookId) ==
    [data EXCEPT !.webhooks = <<>>, !.nulls = @ \cup {"webhooks"}]

\* UnregisterWebhook, lines 269-276: newHooks starts as a nil slice
UnregisterData(data, hookId) ==
    LET keep(h) == h.id # hookId
        newHooks == SelectSeq(data.webhooks, keep)
    IN  [data EXCEPT
            !.webhooks = newHooks,
            !.nulls = IF newHooks = <<>> THEN @ \cup {"webhooks"}
                                         ELSE @ \ {"webhooks"}]

\* RegisterWebhook and UnregisterWebhook, lines 261-278, called while no
\* other helper of the user is running: LoadUser (which creates a missing
\* file), then SaveUser
RegisterWebhook(u, hook) ==
    file' = [file EXCEPT ![u] = OkFile(RegisterData(LoadResult(file[u]), hook))]

UnregisterWebhook(u, hookId) ==
    file' = [file EXCEPT ![u] = OkFile(UnregisterData(LoadResult(file[u]), hookId))]

NoMsg == Msg(0, "", "", "", "", "", FALSE, "nil")
NoArg == [id |-> 0, key |-> "", msg |-> NoMsg]

\* what a helper writes back, from what it loaded
Mutate(op, data, arg) ==
    CASE op = "PushToUserMessage" -> PushData(data, arg.msg)
      [] op = "IncrementStatUser" -> IncrementData(data, arg.key)
      [] op = "ClearUserBotData"  -> ClearData(data)
      [] op = "RegisterWebhook"   -> RegisterData(data, Hook(arg.id, arg.key))
      [] op = "UnregisterWebhook" -> UnregisterData(data, arg.id)
      [] OTHER -> data

WritingOps ==
    {"PushToUserMessage", "IncrementStatUser", "ClearUserBotData",
     "RegisterWebhook", "UnregisterWebhook"}

IdleTask ==
    [user |-> "u1", handler |-> "none", op |-> "none", arg |-> NoArg,
     pc |-> "idle", data |-> DefaultUserData, post |-> FALSE]

Call(u, handler, op, arg) ==
    [user |-> u, handler |-> handler, op |-> op, arg |-> arg,
     pc |-> "load", data |-> DefaultUserData, post |-> FALSE]

\* the message a SendMessage call records (client.go:337-347)
SentItem(id) ==
    Msg(id, "me", "254700000000", "hi", "sent", "254700000000", FALSE, "nil")

\* the pc of a helper once LoadUser has returned
AfterLoad(op) == IF op \in WritingOps THEN "save" ELSE "ret"

\* LoadUser, lines 172-207: under the read lock, stat and read the file.
\* A missing file makes LoadUser release the lock and call InitUser.
LoadUserStep(t) ==
    /\ task[t].pc = "load"
    /\ IF file[task[t].user].state = "missing"
       THEN task' = [task EXCEPT ![t].pc = "init"]
       ELSE task' = [task EXCEPT ![t].data = LoadResult(file[task[t].user]),
                                 ![t].pc = AfterLoad(task[t].op)]
    /\ UNCHANGED <<file, nextId, file0>>

\* InitUser, lines 148-164 as called from LoadUser line 180: under the write
\* lock, write the defaults unless the file exists by now; LoadUser then
\* returns DefaultUserData.
InitUserStep(t) ==
    /\ task[t].pc = "init"
    /\ file' = IF file[task[t].user].state = "missing"
               THEN [file EXCEPT ![task[t].user] = OkFile(DefaultUserData)]
               ELSE file
    /\ task' = [task EXCEPT ![t].data = DefaultUserData,
                            ![t].pc = AfterLoad(task[t].op)]
    /\ UNCHANGED <<nextId, file0>>

\* a ClearUserBotData of user u has completed
ResetDone(u) ==
    \E t \in Tasks : /\ task[t].user = u
                     /\ task[t].op = "ClearUserBotData"
                     /\ task[t].pc = "ret"

\* SaveUser, lines 210-225, with the mutation the helper applied to what it
\* loaded: under the write lock, write the whole record.
\* post (history): the helper completed after the latest completed reset.
SaveUserStep(t) ==
    /\ task[t].pc = "save"
    /\ file' = [file EXCEPT ![task[t].user] =
                    OkFile(Mutate(task[t].op, task[t].data, task[t].arg))]
    /\ task' = [s \in Tasks |->
                  IF s = t
                  THEN [task[t] EXCEPT !.pc = "ret",
                          !.post = /\ task[t].op # "ClearUserBotData"
                                   /\ ResetDone(task[t].user)]
                  ELSE IF /\ task[t].op = "ClearUserBotData"
                          /\ task[s].user = task[t].user
                       THEN [task[s] EXCEPT !.post = FALSE]
                       ELSE task[s]]
    /\ UNCHANGED <<nextId, file0>>

\* the helpers as called by the handlers, each on its own goroutine
StartPush(t, u) ==
    /\ task[t].pc = "idle"
    /\ task' = [task EXCEPT ![t] =
                  Call(u, "none", "PushToUserMessage",
                       [NoArg EXCEPT !.id = nextId, !.msg = SentItem(nextId)])]
    /\ nextId' = nextId + 1
    /\ UNCHANGED <<file, file0>>

StartIncrement(t, u, k) ==
    /\ task[t].pc = "idle"
    /\ task' = [task EXCEPT ![t] =
                  Call(u, "none", "IncrementStatUser", [NoArg EXCEPT !.key = k])]
    /\ UNCHANGED <<file, nextId, file0>>

\* called by Disconnect (client.go:308) and by the Disconnected and LoggedOut
\* event handlers (client.go:178, 184)
StartClear(t, u) ==
    /\ task[t].pc = "idle"
    /\ task' = [task EXCEPT ![t] = Call(u, "none", "ClearUserBotData", NoArg)]
    /\ UNCHANGED <<file, nextId, file0>>

StartRegister(t, u, url) ==
    /\ task[t].pc = "idle"
    /\ task' = [task EXCEPT ![t] =
                  Call(u, "none", "RegisterWebhook",
                       [NoArg EXCEPT !.id = nextId, !.key = url])]
    /\ nextId' = nextId + 1
    /\ UNCHANGED <<file, file0>>

\* ids a caller may name: those registered now, and one that is not
KnownHookIds(u) ==
    {file[u].rec.webhooks[i].id : i \in 1..Len(file[u].rec.webhooks)} \cup {0}

StartUnregister(t, u, id) ==
    /\ task[t].pc = "idle"
    /\ task' = [task EXCEPT ![t] =
                  Call(u, "none", "UnregisterWebhook", [NoArg EXCEPT !.id = id])]
    /\ UNCHANGED <<file, nextId, file0>>

\* a record that earlier runs of the program left on disk
SeededData ==
    [DefaultUserData EXCEPT
        !.messages = <<SentItem(100)>>,
        !.webhooks = <<Hook(101, "http://w1")>>,
        !.stats = [ZeroStats EXCEPT !["messagesSent"] = 1]]

\* a record with a groups list, as db.js wrote it
GroupedData ==
    [SeededData EXCEPT !.groups = <<[id |-> "120363000000@g.us", name |-> "Group"]>>]

InitFiles == {MissingFile, OkFile(DefaultUserData), OkFile(SeededData)}


(***************************************************************************)
(* Sessions: whatsapp/client.go.  A ClientState is a plain struct shared   *)
(* by every goroutine that asked GetUserClient for it; none of its fields  *)
(* is guarded by a lock.  A whatsmeow client is named by the request that  *)
(* created it; a pairing code, QR image or identity is named by the        *)
(* client it came from; 0 is the nil pointer.                              *)
(***************************************************************************)
Methods == {"qr", "pairing_code"}

NoError == "nil"
ErrStore == "sqlstore.New failed"
ErrConnect == "connect failed"
ErrPairPhone == "PairPhone failed"
ErrPhoneRequired == "Phone number is required for pairing code"

NewClientState ==
    [client |-> 0, status |-> "disconnected", pairingCode |-> 0, qr |-> 0,
     info |-> 0, lastError |-> NoError, cancelPairing |-> FALSE]

NoClient ==
    [user |-> "u1", paired |-> FALSE, alive |-> FALSE, qrOpen |-> FALSE,
     emitted |-> FALSE, pairing |-> FALSE]

\* after (history): the Initialize runs for the same user that had begun
\* before this one began
IdleProc ==
    [user |-> "u1", method |-> "qr", phone |-> FALSE, pc |-> "idle", ret |-> "none",
     after |-> {}]

IdleReader ==
    [user |-> "u1", pc |-> 0,
     snap |-> [status |-> "", pairingCode |-> 0, qr |-> 0, info |-> 0, error |-> NoError]]

\* Initialize has returned r
Done(p, r) ==
    [proc EXCEPT ![p] = [IdleProc EXCEPT !.pc = "done", !.ret = r,
                                         !.user = proc[p].user,
                                         !.after = proc[p].after]]

\* one assignment to a field of a ClientState
W(f, v) == [f |-> f, v |-> v]

RECURSIVE ApplyAll(_, _)
ApplyAll(s, ws) ==
    IF ws = <<>> THEN s
    ELSE ApplyAll([s EXCEPT ![Head(ws).f] = Head(ws).v], Tail(ws))

\* the fields GET /api/status returns
Visible(s) ==
    [status |-> s.status, pairingCode |-> s.pairingCode, qr |-> s.qr,
     info |-> s.info, error |-> s.lastError]

\* the order in which the handler of GET /api/status reads them
StatusFields == <<"status", "pairingCode", "qr", "info", "error">>

Reading(u) == rd.pc \in 1..4 /\ rd.user = u

\* v has the values the handler has read in its first n fields
Agrees(v, snap, n) == \A i \in 1..n : v[StatusFields[i]] = snap[StatusFields[i]]

\* the assignments of one transition, in program order
InitializeBeginWrites(s) ==
    (IF s.client # 0 THEN <<W("client", 0)>> ELSE <<>>)
    \o <<W("status", "initializing"), W("pairingCode", 0), W("qr", 0),
         W("info", 0), W("lastError", NoError)>>
    \o (IF s.cancelPairing THEN <<W("cancelPairing", FALSE)>> ELSE <<>>)

ErrorWrites(e) == <<W("lastError", e), W("status", "error")>>

ConnectedWrites(c, hasId) ==
    <<W("status", "ready"), W("pairingCode", 0), W("qr", 0)>>
    \o (IF hasId THEN <<W("info", c)>> ELSE <<>>)

DisconnectedWrites ==
    <<W("status", "disconnected"), W("pairingCode", 0), W("qr", 0), W("info", 0)>>

LoggedOutWrites == <<W("status", "disconnected")>>

DisconnectWrites(s) ==
    (IF s.client # 0 THEN <<W("client", 0)>> ELSE <<>>)
    \o <<W("status", "disconnected"), W("pairingCode", 0), W("qr", 0),
         W("info", 0), W("lastError", NoError)>>

\* a goroutine performs the assignments ws on the session of u
Commit(u, ws) ==
    /\ sess' = [sess EXCEPT ![u] = ApplyAll(@, ws)]
    /\ stable' = IF Reading(u) /\ Agrees(Visible(ApplyAll(sess[u], ws)), rd.snap, rd.pc)
                 THEN stable \cup {Visible(ApplyAll(sess[u], ws))}
                 ELSE stable

\* client.Disconnect(): the socket and everything hanging on it is closed
Closed(cs, c) ==
    IF c = 0 THEN cs
    ELSE [cs EXCEPT ![c].alive = FALSE, ![c].qrOpen = FALSE, ![c].emitted = FALSE,
                    ![c].pairing = FALSE]

InitSessions ==
    /\ sess = [u \in Users |-> NewClientState]
    /\ clients = [c \in Procs |-> NoClient]
    /\ paired = [u \in Users |-> FALSE]
    /\ proc = [p \in Procs |-> IdleProc]
    /\ rd = IdleReader
    /\ stable = {}

\* Initialize, lines 196-212
InitializeBegin(p, u, method, phone) ==
    /\ proc[p].pc = "idle"
    /\ proc' = [proc EXCEPT ![p] =
                  [user |-> u, method |-> method, phone |-> phone,
                   pc |-> "store", ret |-> "none",
                   after |-> {q \in Procs : proc[q].pc # "idle" /\ proc[q].user = u}]]
    /\ clients' = Closed(clients, sess[u].client)
    /\ Commit(u, InitializeBeginWrites(sess[u]))
    /\ UNCHANGED <<paired, rd, file>>

\* Initialize, lines 215-261: open the device store, create the client and
\* choose the branch
InitializeStore(p, ok) ==
    LET u == proc[p].user
        fresh == [NoClient EXCEPT !.user = u, !.paired = paired[u]]
        nophone == ~paired[u] /\ proc[p].method = "pairing_code" /\ ~proc[p].phone
    IN  /\ proc[p].pc = "store"
        /\ IF ~ok
           THEN /\ Commit(u, ErrorWrites(ErrStore))
                /\ proc' = Done(p, "err")
                /\ UNCHANGED clients
           ELSE /\ clients' = [clients EXCEPT ![p] = fresh]
                /\ Commit(u, <<W("client", p)>>
                             \o (IF ~paired[u] /\ proc[p].method = "pairing_code"
                                 THEN <<W("status", "pairing_code")>> ELSE <<>>)
                             \o (IF nophone THEN ErrorWrites(ErrPhoneRequired) ELSE <<>>))
                /\ proc' = IF nophone THEN Done(p, "nil")
                            ELSE [proc EXCEPT
                                    ![p].pc = IF paired[u] THEN "connect_ready"
                                              ELSE IF proc[p].method = "pairing_code"
                                              THEN "connect_pair"
                                              ELSE "connect_qr"]
        /\ UNCHANGED <<paired, rd, file>>

\* Initialize, lines 226-229: GetFirstDevice fails and Initialize panics on
\* the goroutine POST /reconnect started for it (main.go lines 346-351),
\* where nothing recovers: the Go runtime ends the process
InitializePanic(p) ==
    /\ proc[p].pc = "store"
    /\ proc' = [proc EXCEPT ![p].pc = "panic"]
    /\ UNCHANGED <<sess, stable, clients, paired, rd, file>>

\* the process has ended
Terminated == \E p \in Procs : proc[p].pc = "panic"

\* Initialize, lines 240-246
InitializeConnectPair(p, ok) ==
    /\ proc[p].pc = "connect_pair"
    /\ IF ok
       THEN /\ clients' = [clients EXCEPT ![p].alive = TRUE]
            /\ proc' = [proc EXCEPT ![p].pc = "pairphone"]
            /\ UNCHANGED <<sess, stable>>
       ELSE /\ Commit(proc[p].user, ErrorWrites(ErrConnect))
            /\ proc' = Done(p, "err")
            /\ UNCHANGED clients
    /\ UNCHANGED <<paired, rd, file>>

\* Initialize, lines 248-256
InitializePairPhone(p, ok) ==
    /\ proc[p].pc = "pairphone"
    /\ IF ok
       THEN /\ clients' = [clients EXCEPT ![p].pairing = clients[p].alive]
            /\ Commit(proc[p].user, <<W("pairingCode", p)>>)
            /\ proc' = Done(p, "nil")
       ELSE /\ Commit(proc[p].user, ErrorWrites(ErrPairPhone))
            /\ proc' = Done(p, "err")
            /\ UNCHANGED clients
    /\ UNCHANGED <<paired, rd, file>>

\* Initialize, lines 264-279
InitializeConnectQR(p, ok) ==
    /\ proc[p].pc = "connect_qr"
    /\ IF ok
       THEN /\ clients' = [clients EXCEPT ![p].alive = TRUE, ![p].qrOpen = TRUE]
            /\ Commit(proc[p].user, <<W("status", "qr")>>)
            /\ proc' = Done(p, "nil")
       ELSE /\ proc' = Done(p, "err")
            /\ UNCHANGED <<clients, sess, stable>>
    /\ UNCHANGED <<paired, rd, file>>

\* Initialize, lines 283-290
InitializeConnectReady(p, ok) ==
    /\ proc[p].pc = "connect_ready"
    /\ IF ok
       THEN /\ clients' = [clients EXCEPT ![p].alive = TRUE]
            /\ Commit(proc[p].user, <<W("status", "ready")>>)
            /\ proc' = Done(p, "nil")
       ELSE /\ Commit(proc[p].user, ErrorWrites(ErrConnect))
            /\ proc' = Done(p, "err")
            /\ UNCHANGED clients
    /\ UNCHANGED <<paired, rd, file>>

\* the QR goroutine, lines 270-279: the channel of client c delivers a code
QRCode(c) ==
    /\ clients[c].qrOpen
    /\ clients' = [clients EXCEPT ![c].emitted = TRUE]
    /\ Commit(clients[c].user, <<W("qr", c)>>)
    /\ UNCHANGED <<paired, proc, rd, file>>

\* events.PairSuccess, lines 187-188: the phone accepted the shown code
PairSuccess(c) ==
    /\ clients[c].alive /\ ~clients[c].paired
    /\ (clients[c].qrOpen /\ clients[c].emitted) \/ clients[c].pairing
    /\ clients' = [clients EXCEPT ![c].paired = TRUE, ![c].qrOpen = FALSE,
                                  ![c].pairing = FALSE]
    /\ paired' = [paired EXCEPT ![clients[c].user] = TRUE]
    /\ UNCHANGED <<sess, stable, proc, rd, file>>

\* events.Connected, lines 158-170
Connected(c) ==
    /\ clients[c].alive /\ clients[c].paired
    /\ Commit(clients[c].user, ConnectedWrites(c, clients[c].paired))
    /\ UNCHANGED <<clients, paired, proc, rd, file>>

\* events.Disconnected, lines 172-179: the connection dropped
Disconnected(c) ==
    /\ clients[c].alive
    /\ clients' = [clients EXCEPT ![c].qrOpen = FALSE, ![c].pairing = FALSE]
    /\ Commit(clients[c].user, DisconnectedWrites)
    /\ ClearUserBotData(clients[c].user)
    /\ UNCHANGED <<paired, proc, rd>>

\* events.LoggedOut, lines 181-185: the phone removed the linked device
LoggedOut(c) ==
    /\ clients[c].alive /\ clients[c].paired
    /\ clients' = [Closed(clients, c) EXCEPT ![c].paired = FALSE]
    /\ paired' = [paired EXCEPT ![clients[c].user] = FALSE]
    /\ Commit(clients[c].user, LoggedOutWrites)
    /\ ClearUserBotData(clients[c].user)
    /\ UNCHANGED <<proc, rd>>

\* Disconnect, lines 296-311
Disconnect(u) ==
    LET c == sess[u].client
        loggedOut == c # 0 /\ clients[c].alive /\ clients[c].paired
    IN  /\ clients' = IF loggedOut THEN [Closed(clients, c) EXCEPT ![c].paired = FALSE]
                      ELSE Closed(clients, c)
        /\ paired' = IF loggedOut THEN [paired EXCEPT ![u] = FALSE] ELSE paired
        /\ Commit(u, DisconnectWrites(sess[u]))
        /\ ClearUserBotData(u)
        /\ UNCHANGED <<proc, rd>>

\* GET /api/status, main.go lines 170-180: the handler reads the five fields
\* one after the other; rd.pc counts the fields read
StatusBegin(u) ==
    /\ rd.pc \in {0, 5}
    /\ rd' = [IdleReader EXCEPT !.user = u, !.pc = 1, !.snap.status = sess[u].status]
    /\ stable' = {Visible(sess[u])}
    /\ UNCHANGED <<sess, clients, paired, proc, file>>

StatusRead ==
    LET f == StatusFields[rd.pc + 1]
        snap == [rd.snap EXCEPT ![f] = Visible(sess[rd.user])[f]]
    IN  /\ rd.pc \in 1..4
        /\ rd' = [rd EXCEPT !.pc = rd.pc + 1, !.snap = snap]
        /\ stable' = {v \in stable : Agrees(v, snap, rd.pc + 1)}
        /\ UNCHANGED <<sess, clients, paired, proc, file>>

(***************************************************************************)
(* Inbound messages: the events.Message case of eventHandler,              *)
(* whatsapp/client.go lines 93-156.  The events of one client are handed   *)
(* to the handler one at a time; every webhook delivery runs on a          *)
(* goroutine of its own.                                                   *)
(***************************************************************************)
Placeholder == "Media/Other Message"

\* what the handler reads of an events.Message; "nil" is an absent
\* ExtendedTextMessage
Raw(fromMe, conversation, extended, pushName, isGroup) ==
    [fromMe |-> fromMe, conversation |-> conversation, extended |-> extended,
     pushName |-> pushName, isGroup |-> isGroup]

\* an echo of a sent message, a plain text, a text with both forms, a link
\* preview in a group, an image in a group
RawEvents ==
    {Raw(TRUE, "hello", "nil", "Ann", FALSE),
     Raw(FALSE, "hello", "nil", "Ann", FALSE),
     Raw(FALSE, "hello", "link", "", FALSE),
     Raw(FALSE, "", "link", "", TRUE),
     Raw(FALSE, "", "nil", "Ann", TRUE)}

NoRaw == Raw(FALSE, "", "nil", "", FALSE)

SenderUser == "254711111111"

\* lines 98-130
Normalize(u, id, raw) ==
    Msg(id,
        SenderUser \o "@s.whatsapp.net",
        u,
        IF raw.conversation # "" THEN raw.conversation
        ELSE IF raw.extended # "nil" THEN raw.extended
        ELSE Placeholder,
        "received",
        IF raw.pushName = "" THEN SenderUser ELSE raw.pushName,
        raw.isGroup,
        IF raw.isGroup THEN SenderUser ELSE "nil")

\* pre (history): the record when the event arrived
IdleInbound ==
    [pc |-> "idle", raw |-> NoRaw, msg |-> NoMsg, data |-> DefaultUserData,
     pre |-> DefaultUserData]

InitInbound ==
    /\ inbound = [u \in Users |-> IdleInbound]
    /\ posts = <<>>
    /\ down = {}

\* mutant: the handler does not look at IsFromMe
MessageEventUnfiltered(u, raw) ==
    /\ inbound[u].pc \in {"idle", "returned", "ignored"}
    /\ nextId <= MaxEvents
    /\ nextId' = nextId + 1
    /\ inbound' = [inbound EXCEPT ![u] =
           [pc |-> "push", raw |-> raw, msg |-> Normalize(u, nextId, raw),
            data |-> LoadResult(file[u]), pre |-> LoadResult(file[u])]]
    /\ file' = IF file[u].state = "missing"
               THEN [file EXCEPT ![u] = OkFile(DefaultUserData)]
               ELSE file
    /\ UNCHANGED <<posts, down, task, file0>>

\* lines 93-132 up to the LoadUser inside PushToUserMessage
MessageEvent(u, raw) ==
    /\ inbound[u].pc \in {"idle", "returned", "ignored"}
    /\ nextId <= MaxEvents
    /\ nextId' = nextId + 1
    /\ IF raw.fromMe
       THEN /\ inbound' = [inbound EXCEPT ![u] =
                   [IdleInbound EXCEPT !.pc = "ignored", !.raw = raw]]
            /\ UNCHANGED file
       ELSE /\ inbound' = [inbound EXCEPT ![u] =
                   [pc |-> "push", raw |-> raw, msg |-> Normalize(u, nextId, raw),
                    data |-> LoadResult(file[u]), pre |-> LoadResult(file[u])]]
            /\ file' = IF file[u].state = "missing"
                       THEN [file EXCEPT ![u] = OkFile(DefaultUserData)]
                       ELSE file
    /\ UNCHANGED <<posts, down, task, file0>>

\* line 132: the SaveUser of PushToUserMessage, then the LoadUser of
\* IncrementStatUser
MessageStored(u) ==
    /\ inbound[u].pc = "push"
    /\ file' = [file EXCEPT ![u] = OkFile(PushData(inbound[u].data, inbound[u].msg))]
    /\ inbound' = [inbound EXCEPT
           ![u].pc = "count",
           ![u].data = LoadResult(OkFile(PushData(inbound[u].data, inbound[u].msg)))]
    /\ UNCHANGED <<posts, down, task, nextId, file0>>

\* mutant: the handler counts the message as sent
MessageCountedSent(u) ==
    /\ inbound[u].pc = "count"
    /\ file' = [file EXCEPT ![u] = OkFile(IncrementData(inbound[u].data, "messagesSent"))]
    /\ inbound' = [inbound EXCEPT ![u].pc = "fanout"]
    /\ UNCHANGED <<posts, down, task, nextId, file0>>

\* line 133: the SaveUser of IncrementStatUser
MessageCounted(u) ==
    /\ inbound[u].pc = "count"
    /\ file' = [file EXCEPT ![u] =
                   OkFile(IncrementData(inbound[u].data, "messagesReceived"))]
    /\ inbound' = [inbound EXCEPT ![u].pc = "fanout"]
    /\ UNCHANGED <<posts, down, task, nextId, file0>>

\* lines 136-156: one goroutine per registered webhook, then the handler
\* returns
MessageFanOut(u) ==
    LET hooks == LoadResult(file[u]).webhooks IN
    /\ inbound[u].pc = "fanout"
    /\ posts' = posts \o [i \in 1..Len(hooks) |->
                            [user |-> u, url |-> hooks[i].url,
                             body |-> inbound[u].msg, state |-> "pending",
                             attempts |-> 0]]
    /\ inbound' = [inbound EXCEPT ![u].pc = "returned"]
    /\ UNCHANGED <<file, down, task, nextId, file0>>

\* mutant: a failed delivery ends the deliveries started after it for the
\* same message
DeliveredOrAbandoned(ps, i, ok) ==
    [j \in 1..Len(ps) |->
        IF j = i THEN [ps[j] EXCEPT !.state = IF ok THEN "ok" ELSE "failed",
                                    !.attempts = @ + 1]
        ELSE IF ~ok /\ j > i /\ ps[j].body = ps[i].body /\ ps[j].state = "pending"
        THEN [ps[j] EXCEPT !.state = "abandoned"]
        ELSE ps[j]]

\* mutant: a failed delivery is tried once more
DeliveredOrRetried(ps, i, ok) ==
    [ps EXCEPT ![i].state = IF ok THEN "ok"
                            ELSE IF ps[i].attempts = 0 THEN "pending" ELSE "failed",
               ![i].attempts = @ + 1]

\* lines 148-155: one http.Post; its outcome is printed and nothing else
Delivered(ps, i, ok) ==
    [ps EXCEPT ![i].state = IF ok THEN "ok" ELSE "failed", ![i].attempts = @ + 1]

\* the goroutine of delivery i runs
Deliver(i) ==
    /\ posts[i].state = "pending"
    /\ posts' = Delivered(posts, i, posts[i].url \notin down)
    /\ UNCHANGED <<file, inbound, down, task, nextId, file0>>

(***************************************************************************)
(* Outbound commands: SendMessage, SendGroupMessage, GetGroups, JoinGroup, *)
(* LeaveGroup and AddToGroup, whatsapp/client.go lines 315-456.            *)
(***************************************************************************)
Commands ==
    {"SendMessage", "SendGroupMessage", "GetGroups", "JoinGroup", "LeaveGroup",
     "AddToGroup"}

SendCommands == {"SendMessage", "SendGroupMessage"}

\* the counter a command increments once the protocol client accepted it
StatOf(name) ==
    CASE name \in SendCommands -> "messagesSent"
      [] name = "JoinGroup" -> "groupsJoined"
      [] name = "LeaveGroup" -> "groupsLeft"
      [] OTHER -> "none"

\* the message a SendGroupMessage call records (lines 372-382)
SentGroupItem(id) ==
    Msg(id, "me", "120363000000@g.us", "hi", "sent", "Group", TRUE, "120363000000")

\* whatsmeow.GenerateMessageID() for the n-th command
SentId(n) == 200 + n

\* the command served last: n counts the commands served so far, calls
\* (history) the protocol calls issued for this one
IdleCommand ==
    [user |-> "u1", name |-> "none", result |-> "none", msg |-> NoMsg,
     n |-> 0, calls |-> 0]

InitCommands == cmd = IdleCommand

\* uc.Client != nil && uc.Client.IsConnected()
IsConnected(u) == sess[u].client # 0 /\ clients[sess[u].client].alive

\* the message a send command builds
SentBy(name, id) ==
    IF name = "SendMessage" THEN SentItem(id)
    ELSE IF name = "SendGroupMessage" THEN SentGroupItem(id)
    ELSE NoMsg

\* mutant: the send commands do not count the message
RecordedUncounted(name, rec, msg) ==
    IF name \in SendCommands
    THEN PushData(rec, msg)
    ELSE IncrementData(rec, StatOf(name))

\* PushToUserMessage followed by IncrementStatUser, or IncrementStatUser
\* alone, with no other store helper of the user running beside them
Recorded(name, rec, msg) ==
    IF name \in SendCommands
    THEN IncrementData(LoadResult(OkFile(PushData(rec, msg))), StatOf(name))
    ELSE IncrementData(rec, StatOf(name))

\* mutant: a send command hands the message to the user's webhooks
FannedOutToHooks(name, u, msg, hooks) ==
    IF name \in SendCommands
    THEN [i \in 1..Len(hooks) |->
            [user |-> u, url |-> hooks[i].url, body |-> msg, state |-> "pending",
             attempts |-> 0]]
    ELSE <<>>

\* the deliveries a command starts: none
FannedOut(name, u, msg, hooks) == <<>>

\* mutant: the command records and counts before it looks at the error
WritesAlways(name, accepted) == StatOf(name) # "none"

\* the command reaches its store calls: the protocol client returned no
\* error (lines 333-335, 419-421, 433-435) and the command has a counter
Writes(name, accepted) == accepted /\ StatOf(name) # "none"

\* a command from its guard to its return
Command(u, name, accepted) ==
    LET id == SentId(cmd.n + 1)
        served == [IdleCommand EXCEPT !.user = u, !.name = name, !.n = cmd.n + 1]
        writes == Writes(name, accepted)
    IN  /\ cmd.n < MaxCommands
        /\ IF ~IsConnected(u)
           THEN /\ cmd' = [served EXCEPT !.result = "not connected"]
                /\ UNCHANGED <<file, posts>>
           ELSE /\ cmd' = [served EXCEPT
                      !.calls = 1,
                      !.result = IF accepted THEN "ok" ELSE "error",
                      !.msg = IF accepted THEN SentBy(name, id) ELSE NoMsg]
                /\ file' = IF writes
                           THEN [file EXCEPT ![u] =
                                   OkFile(Recorded(name, LoadResult(file[u]),
                                                   SentBy(name, id)))]
                           ELSE file
                /\ posts' = IF writes
                            THEN posts \o FannedOut(name, u, SentBy(name, id),
                                                    LoadResult(file[u]).webhooks)
                            ELSE posts
        /\ UNCHANGED <<inbound, down, task, nextId, file0>>

(***************************************************************************)
(* User ids on their way to the disk: sanitizeUserId and UserDataPath      *)
(* (storage/store.go lines 52-64) and the session database path of         *)
(* Initialize (whatsapp/client.go lines 214-218).  An id is a sequence of  *)
(* characters, a path a sequence of segments.                              *)
(***************************************************************************)
\* a letter, a digit, the hyphen, and two characters that mean something in
\* a path
IdChars == {"a", "7", "-", ".", "/"}

Ids == UNION {[1..n -> IdChars] : n \in 0..MaxIdLen}

\* the characters the pattern [^a-zA-Z0-9\-] of line 53 does not match
Allowed(ch) == ch \in {"a", "7", "-"}

\* sanitizeUserId, lines 52-59
sanitizeUserId(userId) ==
    LET clean == SelectSeq(userId, Allowed)
    IN  IF clean # userId \/ clean = <<>>
        THEN [clean |-> <<>>, err |-> TRUE]
        ELSE [clean |-> clean, err |-> FALSE]

\* the segments of one path element, split at the separators
RECURSIVE Split(_)
Split(s) ==
    IF s = <<>> THEN << <<>> >>
    ELSE LET rest == Split(Tail(s))
         IN  IF Head(s) = "/" THEN << <<>> >> \o rest
             ELSE << <<Head(s)>> \o Head(rest) >> \o Tail(rest)

RECURSIVE Segments(_)
Segments(elems) ==
    IF elems = <<>> THEN <<>> ELSE Split(Head(elems)) \o Segments(Tail(elems))

\* filepath.Clean: empty and "." segments are dropped, ".." removes the
\* segment before it
RECURSIVE CleanOnto(_, _)
CleanOnto(stack, segs) ==
    IF segs = <<>> THEN stack
    ELSE LET h == Head(segs)
         IN  IF h = <<>> \/ h = <<".">>
             THEN CleanOnto(stack, Tail(segs))
             ELSE IF /\ h = <<".", ".">>
                     /\ stack # <<>>
                     /\ stack[Len(stack)] # <<".", ".">>
             THEN CleanOnto(SubSeq(stack, 1, Len(stack) - 1), Tail(segs))
             ELSE CleanOnto(Append(stack, h), Tail(segs))

\* filepath.Join
Join(elems) == CleanOnto(<<>>, Segments(elems))

\* filepath.Dir
Dir(path) == SubSeq(path, 1, Len(path) - 1)

\* store.go:14
usersDir == Join(<< <<"data">>, <<"users">> >>)

\* UserDataPath, lines 61-64: the error of sanitizeUserId is dropped
UserDataPath(userId) ==
    Join(usersDir \o <<sanitizeUserId(userId).clean, <<"data.json">> >>)

\* Initialize, line 215
SessionDbPath(userId) ==
    Join(<< <<"data">>, <<"users">>, userId, <<"session.db">> >>)

\* one access to the disk
Touch(how, path) == [how |-> how, path |-> path]

\* InitUser, lines 148-164
InitUserTouches(userId, exists) ==
    LET safe == sanitizeUserId(userId)
        p == UserDataPath(safe.clean)
    IN  IF safe.err THEN {}
        ELSE {Touch("stat", p)}
             \cup (IF exists THEN {}
                   ELSE {Touch("mkdir", Dir(p)), Touch("write", p)})

\* LoadUser, lines 166-208
LoadUserTouches(userId, exists) ==
    LET safe == sanitizeUserId(userId)
        p == UserDataPath(safe.clean)
    IN  IF safe.err THEN {}
        ELSE {Touch("stat", p)}
             \cup (IF exists THEN {Touch("read", p)}
                   ELSE InitUserTouches(safe.clean, FALSE))

\* SaveUser, lines 210-225
SaveUserTouches(userId) ==
    LET safe == sanitizeUserId(userId)
        p == UserDataPath(safe.clean)
    IN  IF safe.err THEN {}
        ELSE {Touch("mkdir", Dir(p)), Touch("write", p)}

\* Initialize, lines 215-218: MkdirAll of the directory, then sqlstore.New
\* opens the database
InitializeTouches(userId) ==
    {Touch("mkdir", Dir(SessionDbPath(userId))), Touch("open", SessionDbPath(userId))}

\* the operations that take a user id: the three store primitives, a helper
\* built on them, and the two session operations
IdOperations ==
    {"LoadUser", "SaveUser", "InitUser", "PushToUserMessage", "Initialize",
     "Disconnect"}

Touches(op, userId, exists) ==
    CASE op = "LoadUser" -> LoadUserTouches(userId, exists)
      [] op = "SaveUser" -> SaveUserTouches(userId)
      [] op = "InitUser" -> InitUserTouches(userId, exists)
      [] op = "PushToUserMessage" ->
            LoadUserTouches(userId, exists) \cup SaveUserTouches(userId)
      [] op = "Initialize" -> InitializeTouches(userId)
      [] op = "Disconnect" ->
            LoadUserTouches(userId, exists) \cup SaveUserTouches(userId)
      [] OTHER -> {}

\* the operation tests the id before anything else
Rejects(op, userId) ==
    IF op \in {"Initialize", "Disconnect"} THEN FALSE
    ELSE sanitizeUserId(userId).err

NoIdCall == [op |-> "none", id |-> <<>>, rejected |-> FALSE, touched |-> {}]

InitIds == idCall = NoIdCall

\* one operation, from its call to its return; exists: the record file of
\* the id is on disk
IdOperation(op, userId, exists) ==
    idCall' = [op |-> op, id |-> userId, rejected |-> Rejects(op, userId),
               touched |-> Touches(op, userId, exists)]

(***************************************************************************)
(* The JavaScript store, whatsapp/client.go lines 459-651 (db.js).  Its    *)
(* functions are synchronous and run to completion on the event loop.      *)
(* loadUser answers a missing or unparsable file with                      *)
(* { ...DEFAULT_USER_DATA }, a copy of the top-level properties only: the  *)
(* three arrays and the stats object of the copy are those of              *)
(* DEFAULT_USER_DATA itself.                                               *)
(***************************************************************************)
NotMade == [done |-> FALSE, rec |-> DefaultUserData]

InitJs == defaults = DefaultUserData /\ made = [u \in Users |-> NotMade]

\* loadUser, lines 552-563: the record, and whether its arrays and stats are
\* the objects of DEFAULT_USER_DATA
JsLoaded(f) ==
    IF f.state = "ok" THEN [data |-> f.rec, shared |-> FALSE]
    ELSE [data |-> defaults, shared |-> TRUE]

\* initUser as called by loadUser, lines 544-550 and 555-556: a missing file
\* is written from DEFAULT_USER_DATA as it is now
JsInitUser(u) ==
    IF file[u].state = "missing" THEN OkFile(defaults) ELSE file[u]

JsMade(u) ==
    IF file[u].state = "missing"
    THEN [made EXCEPT ![u] = [done |-> TRUE, rec |-> defaults]]
    ELSE made

\* data[key].push(item), line 584, on an array of DEFAULT_USER_DATA
JsPushed(key, item) == [defaults EXCEPT ![key] = Append(@, item)]

\* getUser, lines 571-574
JsGetUser(u) ==
    /\ nextId <= MaxAppends
    /\ nextId' = nextId + 1
    /\ file' = [file EXCEPT ![u] = JsInitUser(u)]
    /\ made' = JsMade(u)
    /\ UNCHANGED <<defaults, task, file0>>

\* pushToUser, lines 582-591, for key "messages" or "webhooks"
JsPushToUser(u, key) ==
    LET ld == JsLoaded(file[u])
        item == IF key = "messages" THEN SentItem(nextId)
                ELSE Hook(nextId, "http://w1")
        data == IF key = "messages" THEN PushData(ld.data, item)
                ELSE RegisterData(ld.data, item)
    IN  /\ nextId <= MaxAppends
        /\ nextId' = nextId + 1
        /\ made' = JsMade(u)
        /\ defaults' = IF ld.shared THEN JsPushed(key, item) ELSE defaults
        /\ file' = [file EXCEPT ![u] = OkFile(data)]
        /\ UNCHANGED <<task, file0>>

\* incrementStatUser, lines 600-605
JsIncrementStatUser(u, statKey) ==
    LET ld == JsLoaded(file[u])
    IN  /\ nextId <= MaxAppends
        /\ nextId' = nextId + 1
        /\ made' = JsMade(u)
        /\ defaults' = IF ld.shared
                       THEN [defaults EXCEPT !.stats[statKey] = @ + 1]
                       ELSE defaults
        /\ file' = [file EXCEPT ![u] =
                       OkFile([ld.data EXCEPT !.stats[statKey] = @ + 1])]
        /\ UNCHANGED <<task, file0>>

\* clearUserBotData, lines 607-613: new arrays and a copy of
\* DEFAULT_USER_DATA.stats are assigned to the loaded record
JsClearUserBotData(u) ==
    LET ld == JsLoaded(file[u])
    IN  /\ nextId <= MaxAppends
        /\ nextId' = nextId + 1
        /\ made' = JsMade(u)
        /\ file' = [file EXCEPT ![u] =
                       OkFile([ld.data EXCEPT !.messages = <<>>, !.webhooks = <<>>,
                                              !.stats = defaults.stats])]
        /\ UNCHANGED <<defaults, task, file0>>

\* routes/hooks.js line 42: the predicate of the removal; id 0 and url ""
\* stand for a field the request does not have
JsMatches(w, id, url) == IF id # 0 THEN w.id = id ELSE w.url = url

\* removeFromUser, lines 595-596: nothing is done to a key that holds no
\* array, else the items the predicate rejects are kept
JsRemoved(data, id, url) ==
    LET keep(w) == ~JsMatches(w, id, url)
    IN  [data EXCEPT !.webhooks = SelectSeq(@, keep)]

\* DELETE /api/hooks/unregister, routes/hooks.js lines 36-44, and
\* removeFromUser, lines 593-598
JsUnregister(u, id, url) ==
    LET ld == JsLoaded(file[u])
    IN  /\ id # 0 \/ url # ""
        /\ nextId <= MaxAppends
        /\ nextId' = nextId + 1
        /\ made' = JsMade(u)
        /\ file' = [file EXCEPT ![u] =
                       IF "webhooks" \in ld.data.nulls THEN JsInitUser(u)
                       ELSE OkFile(JsRemoved(ld.data, id, url))]
        /\ UNCHANGED <<defaults, task, file0>>

(***************************************************************************)
(* GET /api/messages: main.go lines 194-217, routes/api.js lines 22-26     *)
(***************************************************************************)
\* c.Query("limit", "50") and the value after a failed Atoi; || 50
DefaultLimit == 50

\* the longest limit parameter of the requests
MaxLimitLen == 2

\* the record on disk holds up to MaxStored messages, or about DefaultLimit
MaxStored == 2

\* the characters of a limit parameter: digits and one that is no digit
LimitDigits == {"0", "1", "2", "5"}
LimitChars == LimitDigits \cup {"x"}

\* the limit parameter of a request; the empty one stands for a request
\* without the parameter
Limits == UNION {[1..n -> LimitChars] : n \in 0..MaxLimitLen}

DigitValue(ch) ==
    CASE ch = "0" -> 0 [] ch = "1" -> 1 [] ch = "2" -> 2 [] ch = "5" -> 5
      [] OTHER -> 0

RECURSIVE Decimal(_)
Decimal(s) ==
    IF s = <<>> THEN 0
    ELSE 10 * Decimal(SubSeq(s, 1, Len(s) - 1)) + DigitValue(s[Len(s)])

\* the answer of a conversion that failed: Atoi's err, parseInt's NaN
NotANumber == -1

\* strconv.Atoi: every character has to be a digit
Atoi(s) ==
    IF s # <<>> /\ \A i \in 1..Len(s) : s[i] \in LimitDigits
    THEN Decimal(s) ELSE NotANumber

\* the digits a string starts with
RECURSIVE LeadingDigits(_)
LeadingDigits(s) ==
    IF s = <<>> \/ s[1] \notin LimitDigits THEN <<>>
    ELSE <<s[1]>> \o LeadingDigits(Tail(s))

\* parseInt: the number the string starts with, NaN when it starts with none
parseInt(s) ==
    IF LeadingDigits(s) = <<>> THEN NotANumber ELSE Decimal(LeadingDigits(s))

\* main.go lines 198-202
GoLimit(q) ==
    LET limitStr == IF q = <<>> THEN <<"5", "0">> ELSE q
    IN  IF Atoi(limitStr) = NotANumber THEN DefaultLimit ELSE Atoi(limitStr)

\* routes/api.js line 24: parseInt(req.query.limit) || 50; NaN and 0 are falsy
JsLimit(q) ==
    IF parseInt(q) = NotANumber \/ parseInt(q) = 0 THEN DefaultLimit
    ELSE parseInt(q)

Reversed(s) == [i \in 1..Len(s) |-> s[Len(s) + 1 - i]]

\* main.go lines 204-216
GoMessages(msgs, q) ==
    LET limit == GoLimit(q)
    IN  Reversed(IF Len(msgs) > limit
                 THEN SubSeq(msgs, Len(msgs) - limit + 1, Len(msgs))
                 ELSE msgs)

\* Array.prototype.slice(start) for start <= 0: counted from the end
Slice(msgs, start) ==
    LET from == IF Len(msgs) + start < 0 THEN 0 ELSE Len(msgs) + start
    IN  IF start = 0 THEN msgs ELSE SubSeq(msgs, from + 1, Len(msgs))

\* routes/api.js line 25: messages.slice(-limit).reverse()
JsMessages(msgs, q) == Reversed(Slice(msgs, 0 - JsLimit(q)))

NoPage == [user |-> "none", limit |-> <<>>, go |-> <<>>, js |-> <<>>]

\* the record files of the requests: none, or one with n messages
Stored(n) == [DefaultUserData EXCEPT !.messages = [i \in 1..n |-> SentItem(i)]]
StoredFiles ==
    {MissingFile} \cup
    {OkFile(Stored(n)) :
        n \in (0..MaxStored) \cup {DefaultLimit - 1, DefaultLimit, DefaultLimit + 1}}

\* the handler from the request to the answer, as the Go server and as the
\* JS server give it; LoadUser / getUser make the record of a new user
GetMessages(u, q) ==
    /\ page' = [user |-> u, limit |-> q,
                go |-> GoMessages(LoadResult(file[u]).messages, q),
                js |-> JsMessages(LoadResult(file[u]).messages, q)]
    /\ file' = IF file[u].state = "missing"
               THEN [file EXCEPT ![u] = OkFile(DefaultUserData)] ELSE file
    /\ UNCHANGED <<task, nextId, file0>>

(***************************************************************************)
(* POST /api/reconnect: main.go lines 328-354, routes/api.js lines 121-129 *)
(***************************************************************************)
\* no answer is written yet
NoBody == [success |-> FALSE, message |-> "none"]

NoReply == [state |-> "none", method |-> "qr", body |-> NoBody]

\* fiber.Map{"success": true, "message": "Reconnecting via " + method + "..."}
Accepted(method) == [success |-> TRUE, message |-> method]

\* the handler up to the go statement: the goroutine that will call
\* Initialize exists, nothing is answered yet
PostReconnect(p, method) ==
    /\ reply[p].state = "none"
    /\ reply' = [reply EXCEPT ![p] = [NoReply EXCEPT !.state = "spawned",
                                                     !.method = method]]

\* the goroutine of the request has been started and may call Initialize
Spawned(p) == reply[p].state # "none"

\* mutant: the handler awaits Initialize
AnswersAfterInitialize(p) == reply[p].state = "spawned" /\ proc[p].pc = "done"

\* the handler is at its return statement: right after the go statement
Answers(p) == reply[p].state = "spawned"

\* return c.JSON(...), line 353
ReconnectRespond(p) ==
    /\ Answers(p)
    /\ reply' = [reply EXCEPT ![p].state = "sent",
                              ![p].body = Accepted(reply[p].method)]

InitApi == page = NoPage /\ reply = [p \in Procs |-> NoReply]


(***************************************************************************)
(* The locks of the store, storage/store.go: userLocks guards the map of   *)
(* per-user locks (getUserLock, lines 35-50), and InitUser, LoadUser and   *)
(* SaveUser hold the user's lock around their file calls.  A sync.RWMutex  *)
(* admits no new reader while a writer waits for it.  What the calls read  *)
(* and write is in SpecStore; here a record file only exists or not.       *)
(***************************************************************************)
FreeLock == [readers |-> {}, writer |-> 0, waiting |-> {}]

\* RLock returns at once
CanRLock(l) == l.writer = 0 /\ l.waiting = {}
RLocked(l, t) == [l EXCEPT !.readers = @ \cup {t}]
RUnlocked(l, t) == [l EXCEPT !.readers = @ \ {t}]

\* Lock: t announces itself, then waits until the readers have left
LockAsked(l, t) == [l EXCEPT !.waiting = @ \cup {t}]
CanLock(l, t) == t \in l.waiting /\ l.writer = 0 /\ l.readers = {}
Locked(l, t) == [l EXCEPT !.writer = t, !.waiting = @ \ {t}]
Unlocked(l, t) == [l EXCEPT !.writer = 0]

\* t holds l or waits for it
Involved(l, t) == t \in l.readers \/ t \in l.waiting \/ l.writer = t

\* the calls: InitUser, a compound helper (LoadUser, then SaveUser), and a
\* command (GetUserClient, then a compound helper)
LockOps == {"InitUser", "Helper", "Command"}

\* fn: the store function the goroutine is in; inLoad: InitUser was called
\* by LoadUser
IdleLockTask ==
    [op |-> "none", user |-> "u1", fn |-> "none", pc |-> "idle", inLoad |-> FALSE]

InitLocks ==
    /\ userLocks = [mx |-> FreeLock, m |-> {}]
    /\ userLock = [u \in Users |-> FreeLock]
    /\ lockTask = [t \in Tasks |-> IdleLockTask]

\* a goroutine calls InitUser or a helper, or a command calls GetUserClient
LockCall(t, op, u) ==
    /\ lockTask[t].pc = "idle"
    /\ lockTask' = [lockTask EXCEPT ![t] =
                      [IdleLockTask EXCEPT
                          !.op = op, !.user = u,
                          !.fn = CASE op = "InitUser" -> "InitUser"
                                   [] op = "Helper" -> "LoadUser"
                                   [] OTHER -> "GetUserClient",
                          !.pc = IF op = "Command" THEN "guc" ELSE "gul_rlock"]]
    /\ IF op = "Command" THEN GucCall(t, u)
       ELSE UNCHANGED <<userClients, clientsLock, guc, nextHandle, created>>
    /\ UNCHANGED <<userLocks, userLock, file>>

\* a step of GetUserClient on behalf of the command of t
LockGuc(t) ==
    /\ lockTask[t].pc = "guc"
    /\ \/ GucRLock(t)
       \/ GucReadUnlock(t)
       \/ GucLock(t)
       \/ GucCheckCreate(t)
       \/ GucUnlock(t)
    /\ UNCHANGED <<userLocks, userLock, lockTask, file>>

\* GetUserClient has returned: the command calls its store helper
LockGucReturn(t) ==
    /\ lockTask[t].pc = "guc"
    /\ guc[t].pc = "done"
    /\ lockTask' = [lockTask EXCEPT ![t].fn = "LoadUser", ![t].pc = "gul_rlock"]
    /\ UNCHANGED <<userLocks, userLock, file, registryVars>>

\* getUserLock, line 36: userLocks.RLock()
GulRLock(t) ==
    /\ lockTask[t].pc = "gul_rlock"
    /\ CanRLock(userLocks.mx)
    /\ userLocks' = [userLocks EXCEPT !.mx = RLocked(@, t)]
    /\ lockTask' = [lockTask EXCEPT ![t].pc = "gul_read"]
    /\ UNCHANGED <<userLock, file, registryVars>>

\* getUserLock, lines 37-40: look the lock up, RUnlock, if !ok
GulReadUnlock(t) ==
    /\ lockTask[t].pc = "gul_read"
    /\ userLocks' = [userLocks EXCEPT !.mx = RUnlocked(@, t)]
    /\ lockTask' = [lockTask EXCEPT
                      ![t].pc = IF lockTask[t].user \in userLocks.m
                                THEN "acquire" ELSE "gul_lock"]
    /\ UNCHANGED <<userLock, file, registryVars>>

\* getUserLock, line 41: userLocks.Lock() is called
GulLock(t) ==
    /\ lockTask[t].pc = "gul_lock"
    /\ userLocks' = [userLocks EXCEPT !.mx = LockAsked(@, t)]
    /\ lockTask' = [lockTask EXCEPT ![t].pc = "gul_wait"]
    /\ UNCHANGED <<userLock, file, registryVars>>

\* getUserLock, line 41: userLocks.Lock() returns
GulLocked(t) ==
    /\ lockTask[t].pc = "gul_wait"
    /\ CanLock(userLocks.mx, t)
    /\ userLocks' = [userLocks EXCEPT !.mx = Locked(@, t)]
    /\ lockTask' = [lockTask EXCEPT ![t].pc = "gul_create"]
    /\ UNCHANGED <<userLock, file, registryVars>>

\* getUserLock, lines 42-49: look up again, create the lock, Unlock, return
GulCreateUnlock(t) ==
    /\ lockTask[t].pc = "gul_create"
    /\ userLocks' = [userLocks EXCEPT !.mx = Unlocked(@, t),
                                      !.m = @ \cup {lockTask[t].user}]
    /\ lockTask' = [lockTask EXCEPT ![t].pc = "acquire"]
    /\ UNCHANGED <<userLock, file, registryVars>>

\* LoadUser, line 173: lock.RLock(); also line 181, after InitUser
LoadRLock(t) ==
    LET u == lockTask[t].user
    IN  /\ lockTask[t].fn = "LoadUser"
        /\ lockTask[t].pc \in {"acquire", "reacquire"}
        /\ CanRLock(userLock[u])
        /\ userLock' = [userLock EXCEPT ![u] = RLocked(@, t)]
        /\ lockTask' = [lockTask EXCEPT
                          ![t].pc = IF lockTask[t].pc = "acquire" THEN "body"
                                    ELSE "return"]
        /\ UNCHANGED <<userLocks, file, registryVars>>

\* mutant: LoadUser keeps the read lock while it calls InitUser
HeldForInit(l, t) == l

\* LoadUser, line 179: lock.RUnlock() before InitUser
ReleasedForInit(l, t) == RUnlocked(l, t)

\* LoadUser, lines 176-186: stat the file; a missing one is made by
\* InitUser, called with the read lock released
LoadStat(t) ==
    LET u == lockTask[t].user
    IN  /\ lockTask[t].fn = "LoadUser"
        /\ lockTask[t].pc = "body"
        /\ IF file[u].state = "missing"
           THEN /\ userLock' = [userLock EXCEPT ![u] = ReleasedForInit(@, t)]
                /\ lockTask' = [lockTask EXCEPT ![t].fn = "InitUser",
                                                ![t].inLoad = TRUE,
                                                ![t].pc = "gul_rlock"]
           ELSE /\ lockTask' = [lockTask EXCEPT ![t].pc = "return"]
                /\ UNCHANGED userLock
        /\ UNCHANGED <<userLocks, file, registryVars>>

\* LoadUser, line 174 (deferred) and lines 183-207: lock.RUnlock() and
\* return; a helper goes on to SaveUser
LoadReturn(t) ==
    LET u == lockTask[t].user
    IN  /\ lockTask[t].fn = "LoadUser"
        /\ lockTask[t].pc = "return"
        /\ userLock' = [userLock EXCEPT ![u] = RUnlocked(@, t)]
        /\ lockTask' = [lockTask EXCEPT ![t].fn = "SaveUser", ![t].pc = "gul_rlock"]
        /\ UNCHANGED <<userLocks, file, registryVars>>

\* InitUser, line 156, and SaveUser, line 217: lock.Lock() is called
WriteLock(t) ==
    LET u == lockTask[t].user
    IN  /\ lockTask[t].fn \in {"InitUser", "SaveUser"}
        /\ lockTask[t].pc = "acquire"
        /\ userLock' = [userLock EXCEPT ![u] = LockAsked(@, t)]
        /\ lockTask' = [lockTask EXCEPT ![t].pc = "wait"]
        /\ UNCHANGED <<userLocks, file, registryVars>>

\* InitUser, line 156, and SaveUser, line 217: lock.Lock() returns
WriteLocked(t) ==
    LET u == lockTask[t].user
    IN  /\ lockTask[t].fn \in {"InitUser", "SaveUser"}
        /\ lockTask[t].pc = "wait"
        /\ CanLock(userLock[u], t)
        /\ userLock' = [userLock EXCEPT ![u] = Locked(@, t)]
        /\ lockTask' = [lockTask EXCEPT ![t].pc = "body"]
        /\ UNCHANGED <<userLocks, file, registryVars>>

\* InitUser, lines 157-163: write a missing file, Unlock (deferred), return
\* to LoadUser or to the caller
InitUserWrite(t) ==
    LET u == lockTask[t].user
    IN  /\ lockTask[t].fn = "InitUser"
        /\ lockTask[t].pc = "body"
        /\ file' = IF file[u].state = "missing"
                   THEN [file EXCEPT ![u] = OkFile(DefaultUserData)] ELSE file
        /\ userLock' = [userLock EXCEPT ![u] = Unlocked(@, t)]
        /\ lockTask' = IF lockTask[t].inLoad
                       THEN [lockTask EXCEPT ![t].fn = "LoadUser",
                                             ![t].inLoad = FALSE,
                                             ![t].pc = "reacquire"]
                       ELSE [lockTask EXCEPT ![t].fn = "none", ![t].pc = "done"]
        /\ UNCHANGED <<userLocks, registryVars>>

\* SaveUser, lines 218-224: write the file, Unlock (deferred), return
SaveUserWrite(t) ==
    LET u == lockTask[t].user
    IN  /\ lockTask[t].fn = "SaveUser"
        /\ lockTask[t].pc = "body"
        /\ file' = [file EXCEPT ![u] = OkFile(LoadResult(file[u]))]
        /\ userLock' = [userLock EXCEPT ![u] = Unlocked(@, t)]
        /\ lockTask' = [lockTask EXCEPT ![t].fn = "none", ![t].pc = "done"]
        /\ UNCHANGED <<userLocks, registryVars>>

\* the steps of the goroutine t
LockStep(t) ==
    \/ LockGuc(t)
    \/ LockGucReturn(t)
    \/ GulRLock(t)
    \/ GulReadUnlock(t)
    \/ GulLock(t)
    \/ GulLocked(t)
    \/ GulCreateUnlock(t)
    \/ LoadRLock(t)
    \/ LoadStat(t)
    \/ LoadReturn(t)
    \/ WriteLock(t)
    \/ WriteLocked(t)
    \/ InitUserWrite(t)
    \/ SaveUserWrite(t)
InitStore ==
    /\ file \in [Users -> InitFiles]
    /\ file0 = file
    /\ task = [t \in Tasks |-> IdleTask]
    /\ nextId = 1
    /\ arrived = [u \in Users |-> <<>>]
    /\ InitRegistry
    /\ InitSessions
    /\ InitInbound
    /\ InitCommands
    /\ InitIds
    /\ InitJs
    /\ InitApi
    /\ InitLocks

NextStore ==
    \/ \E t \in Tasks, u \in Users :
          StartPush(t, u) /\ UNCHANGED <<arrived, registryVars, sessionVars, ingestVars, commandVars, idVars, jsVars, apiVars, lockVars>>
    \/ \E t \in Tasks, u \in Users, k \in StatKeys :
          StartIncrement(t, u, k) /\ UNCHANGED <<arrived, registryVars, sessionVars, ingestVars, commandVars, idVars, jsVars, apiVars, lockVars>>
    \/ \E t \in Tasks, u \in Users :
          StartClear(t, u) /\ UNCHANGED <<arrived, registryVars, sessionVars, ingestVars, commandVars, idVars, jsVars, apiVars, lockVars>>
    \/ \E t \in Tasks, u \in Users, url \in Urls :
          StartRegister(t, u, url) /\ UNCHANGED <<arrived, registryVars, sessionVars, ingestVars, commandVars, idVars, jsVars, apiVars, lockVars>>
    \/ \E t \in Tasks, u \in Users : \E id \in KnownHookIds(u) :
          StartUnregister(t, u, id) /\ UNCHANGED <<arrived, registryVars, sessionVars, ingestVars, commandVars, idVars, jsVars, apiVars, lockVars>>
    \/ \E t \in Tasks : LoadUserStep(t) /\ UNCHANGED <<arrived, registryVars, sessionVars, ingestVars, commandVars, idVars, jsVars, apiVars, lockVars>>
    \/ \E t \in Tasks : InitUserStep(t) /\ UNCHANGED <<arrived, registryVars, sessionVars, ingestVars, commandVars, idVars, jsVars, apiVars, lockVars>>
    \/ \E t \in Tasks : SaveUserStep(t) /\ UNCHANGED <<arrived, registryVars, sessionVars, ingestVars, commandVars, idVars, jsVars, apiVars, lockVars>>

SpecStore == InitStore /\ [][NextStore]_vars

(***************************************************************************)
(* Claims about the store helpers under concurrency                        *)
(***************************************************************************)
Started(u) == {t \in Tasks : task[t].pc # "idle" /\ task[t].user = u}
Returned(u) == {t \in Started(u) : task[t].pc = "ret"}
Quiescent(u) == Started(u) = Returned(u)
CallsOf(u, op) == {t \in Started(u) : task[t].op = op}
IncrementsOf(u, k) == {t \in CallsOf(u, "IncrementStatUser") : task[t].arg.key = k}
MsgIds(rec) == {rec.messages[i].id : i \in 1..Len(rec.messages)}
HookIds(rec) == {rec.webhooks[i].id : i \in 1..Len(rec.webhooks)}

\* C4: N concurrent IncrementStatUser(u, "messagesSent") calls, and nothing
\* else, leave the persisted counter at exactly its starting value plus N.
C4_IncrementsAllCounted ==
    \A u \in Users :
        (/\ Started(u) # {}
         /\ Quiescent(u)
         /\ Started(u) = IncrementsOf(u, "messagesSent"))
        => /\ file[u].state = "ok"
           /\ file[u].rec.stats["messagesSent"] =
                 LoadResult(file0[u]).stats["messagesSent"]
                   + Cardinality(Started(u))

\* C5: when appends run concurrently with appends or increments of the same
\* user, the record persisted after all of them holds every appended message
\* and counts every increment.
C5_AppendsAndIncrementsKept ==
    \A u \in Users :
        (/\ CallsOf(u, "PushToUserMessage") # {}
         /\ Quiescent(u)
         /\ Started(u) = CallsOf(u, "PushToUserMessage")
                            \cup CallsOf(u, "IncrementStatUser"))
        => /\ file[u].state = "ok"
           /\ \A t \in CallsOf(u, "PushToUserMessage") :
                 task[t].arg.id \in MsgIds(file[u].rec)
           /\ \A k \in StatKeys :
                 file[u].rec.stats[k] =
                   LoadResult(file0[u]).stats[k] + Cardinality(IncrementsOf(u, k))

\* C7: once a reset and the helpers that ran concurrently with it have
\* completed, the record holds nothing that existed before the reset: every
\* message, webhook and count in it comes from a helper that completed after
\* the reset.
C7_ResetLeavesNothingOld ==
    \A u \in Users :
        (ResetDone(u) /\ Quiescent(u))
        => /\ file[u].state = "ok"
           /\ MsgIds(file[u].rec) \subseteq
                 {task[t].arg.id : t \in {s \in CallsOf(u, "PushToUserMessage") :
                                              task[s].post}}
           /\ HookIds(file[u].rec) \subseteq
                 {task[t].arg.id : t \in {s \in CallsOf(u, "RegisterWebhook") :
                                              task[s].post}}
           /\ \A k \in StatKeys :
                 file[u].rec.stats[k] <=
                   Cardinality({s \in IncrementsOf(u, k) : task[s].post})

\* C8: no two registered webhooks of a user have the same URL.
C8_WebhookUrlsUnique ==
    \A u \in Users :
        \A i, j \in 1..Len(file[u].rec.webhooks) :
            file[u].rec.webhooks[i].url = file[u].rec.webhooks[j].url => i = j

(***************************************************************************)
(* Appends one after the other on records near the 500-message cap         *)
(***************************************************************************)
\* the message an inbound event records (client.go:120-130)
ReceivedItem(id) ==
    Msg(id, "254711111111", "u", "yo", "received", "Ann", FALSE, "nil")

\* a record holding n messages with ids 1..n, appended by earlier runs
FilledData(n) ==
    [DefaultUserData EXCEPT !.messages = [i \in 1..n |-> SentItem(i)]]

InitCapFiles ==
    {MissingFile, OkFile(FilledData(MessageCap - 1)), OkFile(FilledData(MessageCap))}

InitCap ==
    /\ file \in [Users -> InitCapFiles]
    /\ file0 = file
    /\ task = [t \in Tasks |-> IdleTask]
    /\ nextId = MessageCap + 1
    /\ arrived = [u \in Users |->
                    [i \in 1..Len(file[u].rec.messages) |-> file[u].rec.messages[i].id]]
    /\ InitRegistry
    /\ InitSessions
    /\ InitInbound
    /\ InitCommands
    /\ InitIds
    /\ InitJs
    /\ InitApi
    /\ InitLocks

\* PushToUserMessage(u, item), called when no other helper is running
SeqPush(u, item) ==
    /\ \A t \in Tasks : task[t].pc \in {"idle", "ret"}
    /\ nextId <= MessageCap + MaxAppends
    /\ task' = [task EXCEPT ![1] =
                  Call(u, "none", "PushToUserMessage",
                       [NoArg EXCEPT !.id = nextId, !.msg = item])]
    /\ nextId' = nextId + 1
    /\ UNCHANGED <<file, file0, arrived>>

SeqSave ==
    /\ SaveUserStep(1)
    /\ arrived' = [arrived EXCEPT ![task[1].user] = Append(@, task[1].arg.id)]

NextCap ==
    \/ \E u \in Users : SeqPush(u, SentItem(nextId)) /\ UNCHANGED <<registryVars, sessionVars, ingestVars, commandVars, idVars, jsVars, apiVars, lockVars>>
    \/ \E u \in Users : SeqPush(u, ReceivedItem(nextId)) /\ UNCHANGED <<registryVars, sessionVars, ingestVars, commandVars, idVars, jsVars, apiVars, lockVars>>
    \/ LoadUserStep(1) /\ UNCHANGED <<arrived, registryVars, sessionVars, ingestVars, commandVars, idVars, jsVars, apiVars, lockVars>>
    \/ InitUserStep(1) /\ UNCHANGED <<arrived, registryVars, sessionVars, ingestVars, commandVars, idVars, jsVars, apiVars, lockVars>>
    \/ SeqSave /\ UNCHANGED <<registryVars, sessionVars, ingestVars, commandVars, idVars, jsVars, apiVars, lockVars>>

SpecCap == InitCap /\ [][NextCap]_vars

LastN(seq, n) == SubSeq(seq, Len(seq) - n + 1, Len(seq))
IdsOf(msgs) == [i \in 1..Len(msgs) |-> msgs[i].id]

\* C6: after every append the persisted list is the most recent
\* min(k, 500) appended messages in arrival order, never more than 500.
C6_CapKeepsMostRecent ==
    \A u \in Users :
        file[u].state = "ok" =>
            /\ Len(file[u].rec.messages) <= MessageCap
            /\ IdsOf(file[u].rec.messages) =
                  LastN(arrived[u], Min(Len(arrived[u]), MessageCap))

\* an append on a full record has evicted the oldest message
C6_Witness ==
    \E u \in Users :
        /\ Len(arrived[u]) > MessageCap
        /\ task[1].pc = "ret"
        /\ task[1].user = u
        /\ Len(file[u].rec.messages) = MessageCap
        /\ file[u].rec.messages[1].id = arrived[u][Len(arrived[u]) - MessageCap + 1]

(***************************************************************************)
(* Concurrent first access to the registry                                 *)
(***************************************************************************)
InitReg ==
    /\ file = [u \in Users |-> MissingFile]
    /\ file0 = file
    /\ task = [t \in Tasks |-> IdleTask]
    /\ nextId = 1
    /\ arrived = [u \in Users |-> <<>>]
    /\ InitRegistry
    /\ InitSessions
    /\ InitInbound
    /\ InitCommands
    /\ InitIds
    /\ InitJs
    /\ InitApi
    /\ InitLocks

NextReg ==
    \/ \E c \in Callers, u \in Users : GucCall(c, u) /\ UNCHANGED <<storeVars, arrived, sessionVars, ingestVars, commandVars, idVars, jsVars, apiVars, lockVars>>
    \/ \E c \in Callers : GucRLock(c) /\ UNCHANGED <<storeVars, arrived, sessionVars, ingestVars, commandVars, idVars, jsVars, apiVars, lockVars>>
    \/ \E c \in Callers : GucReadUnlock(c) /\ UNCHANGED <<storeVars, arrived, sessionVars, ingestVars, commandVars, idVars, jsVars, apiVars, lockVars>>
    \/ \E c \in Callers : GucLock(c) /\ UNCHANGED <<storeVars, arrived, sessionVars, ingestVars, commandVars, idVars, jsVars, apiVars, lockVars>>
    \/ \E c \in Callers : GucCheckCreate(c) /\ UNCHANGED <<storeVars, arrived, sessionVars, ingestVars, commandVars, idVars, jsVars, apiVars, lockVars>>
    \/ \E c \in Callers : GucUnlock(c) /\ UNCHANGED <<storeVars, arrived, sessionVars, ingestVars, commandVars, idVars, jsVars, apiVars, lockVars>>

SpecRegistry == InitReg /\ [][NextReg]_vars

\* C1: every GetUserClient call for a user returns the one handle in the
\* registry for that user, and at most one handle is ever allocated per user
\* (so no later call replaces it).
C1_OneHandlePerUser ==
    /\ \A u \in Users : created[u] <= 1
    /\ \A c \in Callers :
          guc[c].pc = "done" =>
              /\ guc[c].uc # 0
              /\ guc[c].uc = userClients[guc[c].user]

\* two callers raced through the first lookup for the same new user, and
\* both have returned
C1_Witness ==
    \E c1, c2 \in Callers :
        /\ c1 # c2
        /\ guc[c1].user = guc[c2].user
        /\ guc[c1].pc = "done" /\ guc[c2].pc = "done"
        /\ ~guc[c1].ok
        /\ guc[c2].ok /\ clientsLock.writer = 0
        /\ \E c3 \in Callers : c3 \notin {c1, c2} /\ guc[c3].pc = "lock"
                                /\ guc[c3].user = guc[c1].user


(***************************************************************************)
(* SpecSession: reconnect requests (each running Initialize on a goroutine *)
(* of its own, main.go lines 328-354), disconnect requests and the events  *)
(* of the protocol clients.                                                *)
(***************************************************************************)
InitSession ==
    /\ file = [u \in Users |-> MissingFile]
    /\ file0 = file
    /\ task = [t \in Tasks |-> IdleTask]
    /\ nextId = 1
    /\ arrived = [u \in Users |-> <<>>]
    /\ InitRegistry
    /\ InitSessions
    /\ InitInbound
    /\ InitCommands
    /\ InitIds
    /\ InitJs
    /\ InitApi
    /\ InitLocks

NextSession ==
    \/ \E p \in Procs, u \in Users, m \in Methods, ph \in BOOLEAN :
          InitializeBegin(p, u, m, ph) /\ UNCHANGED sessionFrame
    \/ \E p \in Procs, ok \in BOOLEAN :
          InitializeStore(p, ok) /\ UNCHANGED sessionFrame
    \/ \E p \in Procs, ok \in BOOLEAN :
          InitializeConnectPair(p, ok) /\ UNCHANGED sessionFrame
    \/ \E p \in Procs, ok \in BOOLEAN :
          InitializePairPhone(p, ok) /\ UNCHANGED sessionFrame
    \/ \E p \in Procs, ok \in BOOLEAN :
          InitializeConnectQR(p, ok) /\ UNCHANGED sessionFrame
    \/ \E p \in Procs, ok \in BOOLEAN :
          InitializeConnectReady(p, ok) /\ UNCHANGED sessionFrame
    \/ \E c \in Procs : QRCode(c) /\ UNCHANGED sessionFrame
    \/ \E c \in Procs : PairSuccess(c) /\ UNCHANGED sessionFrame
    \/ \E c \in Procs : Connected(c) /\ UNCHANGED sessionFrame
    \/ \E c \in Procs : Disconnected(c) /\ UNCHANGED sessionFrame
    \/ \E c \in Procs : LoggedOut(c) /\ UNCHANGED sessionFrame
    \/ \E u \in Users : Disconnect(u) /\ UNCHANGED sessionFrame

SpecSession == InitSession /\ [][NextSession]_vars

Artifact(s) == s.qr # 0 \/ s.pairingCode # 0

Populated(s) ==
    (IF Artifact(s) THEN 1 ELSE 0) + (IF s.info # 0 THEN 1 ELSE 0)
    + (IF s.lastError # NoError THEN 1 ELSE 0)

\* C2: in every reachable session state at most one of the credential
\* artifact (QR image or pairing code), the connected identity and the last
\* error is non-empty.
C2_AtMostOnePopulated == \A u \in Users : Populated(sess[u]) <= 1

(***************************************************************************)
(* SpecStatus: the transitions of one user's session, with that user's     *)
(* GET /api/status handler running beside them.                            *)
(***************************************************************************)
StatusUser == "u1"

NextStatus ==
    \/ \E p \in Procs, m \in Methods, ph \in BOOLEAN :
          InitializeBegin(p, StatusUser, m, ph)
          /\ UNCHANGED sessionFrame
    \/ \E p \in Procs, ok \in BOOLEAN :
          InitializeStore(p, ok) /\ UNCHANGED sessionFrame
    \/ \E p \in Procs, ok \in BOOLEAN :
          InitializeConnectPair(p, ok) /\ UNCHANGED sessionFrame
    \/ \E p \in Procs, ok \in BOOLEAN :
          InitializePairPhone(p, ok) /\ UNCHANGED sessionFrame
    \/ \E p \in Procs, ok \in BOOLEAN :
          InitializeConnectQR(p, ok) /\ UNCHANGED sessionFrame
    \/ \E p \in Procs, ok \in BOOLEAN :
          InitializeConnectReady(p, ok) /\ UNCHANGED sessionFrame
    \/ \E c \in Procs : QRCode(c) /\ UNCHANGED sessionFrame
    \/ \E c \in Procs : PairSuccess(c) /\ UNCHANGED sessionFrame
    \/ \E c \in Procs : Connected(c) /\ UNCHANGED sessionFrame
    \/ \E c \in Procs : Disconnected(c) /\ UNCHANGED sessionFrame
    \/ \E c \in Procs : LoggedOut(c) /\ UNCHANGED sessionFrame
    \/ Disconnect(StatusUser) /\ UNCHANGED sessionFrame
    \/ StatusBegin(StatusUser) /\ UNCHANGED sessionFrame
    \/ StatusRead /\ UNCHANGED sessionFrame

SpecStatus == InitSession /\ [][NextStatus]_vars

\* C3: a status read that runs beside session transitions returns a
\* combination of fields the session actually had at some instant of the
\* read, and never a credential artifact together with a connected identity.
C3_StatusReadIsAtomic ==
    rd.pc = 5 =>
        /\ rd.snap \in stable
        /\ ~((rd.snap.qr # 0 \/ rd.snap.pairingCode # 0) /\ rd.snap.info # 0)

(***************************************************************************)
(* SpecIngest: inbound message events of both users and the webhook        *)
(* deliveries they start.  No other store helper of the same user runs     *)
(* beside the handler (for that see C5).                                   *)
(***************************************************************************)
HookedData ==
    [DefaultUserData EXCEPT
        !.messages = <<SentItem(100)>>,
        !.webhooks = <<Hook(101, "http://w1"), Hook(102, "http://w2")>>,
        !.stats = [ZeroStats EXCEPT !["messagesSent"] = 1]]

\* a record with one webhook
OneHookData ==
    [DefaultUserData EXCEPT !.webhooks = <<Hook(103, "http://w2")>>]

InitIngest ==
    /\ file \in {f \in [Users -> {MissingFile, OkFile(HookedData), OkFile(OneHookData)}] :
                    /\ f["u1"] = OkFile(HookedData)
                    /\ f["u2"] # OkFile(HookedData)}
    /\ file0 = file
    /\ task = [t \in Tasks |-> IdleTask]
    /\ nextId = 1
    /\ arrived = [u \in Users |-> <<>>]
    /\ InitRegistry
    /\ InitSessions
    /\ inbound = [u \in Users |-> IdleInbound]
    /\ posts = <<>>
    /\ down \in SUBSET Urls
    /\ InitCommands
    /\ InitIds
    /\ InitJs
    /\ InitApi
    /\ InitLocks

NextIngest ==
    \/ \E u \in Users, raw \in RawEvents :
          MessageEvent(u, raw) /\ UNCHANGED <<arrived, registryVars, sessionVars, commandVars, idVars, jsVars, apiVars, lockVars>>
    \/ \E u \in Users : MessageStored(u) /\ UNCHANGED <<arrived, registryVars, sessionVars, commandVars, idVars, jsVars, apiVars, lockVars>>
    \/ \E u \in Users : MessageCounted(u) /\ UNCHANGED <<arrived, registryVars, sessionVars, commandVars, idVars, jsVars, apiVars, lockVars>>
    \/ \E u \in Users : MessageFanOut(u) /\ UNCHANGED <<arrived, registryVars, sessionVars, commandVars, idVars, jsVars, apiVars, lockVars>>
    \/ \E i \in 1..Len(posts) : Deliver(i) /\ UNCHANGED <<arrived, registryVars, sessionVars, commandVars, idVars, jsVars, apiVars, lockVars>>

SpecIngest == InitIngest /\ [][NextIngest]_vars

Elems(seq) == {seq[i] : i \in 1..Len(seq)}

\* the deliveries started for the message the handler of u worked on last
PostsOf(u) == {i \in 1..Len(posts) : posts[i].user = u /\ posts[i].body = inbound[u].msg}

C10_DeliveryFailureIsolated ==
    \A u \in Users :
        /\ PostsOf(u) # {} => inbound[u].pc = "returned"
        /\ (inbound[u].pc = "returned"
            /\ \A i \in PostsOf(u) : posts[i].state # "pending")
           => /\ \A h \in Elems(file[u].rec.webhooks) :
                    \E i \in PostsOf(u) :
                        /\ posts[i].url = h.url
                        /\ posts[i].state = IF h.url \in down THEN "failed" ELSE "ok"
              /\ inbound[u].msg \in Elems(file[u].rec.messages)

C10_Witness ==
    \E u \in Users :
        /\ inbound[u].pc = "returned"
        /\ \E i, j \in PostsOf(u) : posts[i].state = "failed" /\ posts[j].state = "ok"
        /\ inbound[u].msg \in Elems(file[u].rec.messages)

\* C16: a reconnect of a user without a linked device, with method
\* pairing_code and no phone number, makes Initialize return an error and
\* leaves the session with status error, lastError set and no credential
\* artifact.
C16_NoPhoneFailsSynchronously ==
    [][\A p \in Procs :
          (/\ proc[p].pc = "store"
           /\ proc[p].method = "pairing_code" /\ ~proc[p].phone
           /\ ~paired[proc[p].user]
           /\ proc'[p].pc = "done"
           /\ sess'[proc[p].user].client = p)
          => /\ proc'[p].ret = "err"
             /\ sess'[proc[p].user].status = "error"
             /\ sess'[proc[p].user].lastError # NoError
             /\ ~Artifact(sess'[proc[p].user])]_vars

\* C17: whenever Initialize returns an error, the session has status error
\* and lastError holds the failure.
C17_ErrorResultSetsErrorStatus ==
    [][\A p \in Procs :
          (proc[p].pc # "done" /\ proc'[p].pc = "done" /\ proc'[p].ret = "err")
          => /\ sess'[proc[p].user].status = "error"
             /\ sess'[proc[p].user].lastError # NoError]_vars

\* C18: once a new Initialize has begun for a user, no QR image and no
\* pairing code of an exchange begun before it is written into the session.
C18_NewInitializeCancelsOld ==
    [][\A p, q \in Procs :
          (proc[q].pc # "idle" /\ p \in proc[q].after)
          => /\ sess'[proc[q].user].qr = p => sess[proc[q].user].qr = p
             /\ sess'[proc[q].user].pairingCode = p
                   => sess[proc[q].user].pairingCode = p]_vars

\* C19: at any time at most one protocol client of a user is connected, and
\* once two reconnect requests of a user have both finished, no client other
\* than the session's current one is still connected.
C19_OneLiveClientPerUser ==
    \A c, d \in Procs :
        (c # d /\ proc[c].pc # "idle" /\ proc[d].pc # "idle"
         /\ proc[c].user = proc[d].user)
        => /\ ~(clients[c].alive /\ clients[d].alive)
           /\ (proc[c].pc = "done" /\ proc[d].pc = "done" /\ clients[c].alive)
                 => sess[proc[c].user].client = c

Statuses == {"disconnected", "initializing", "qr", "pairing_code", "ready", "error"}

AllowedChanges ==
    {<<"disconnected", "initializing">>, <<"initializing", "qr">>,
     <<"initializing", "pairing_code">>, <<"qr", "ready">>,
     <<"pairing_code", "ready">>, <<"qr", "error">>, <<"pairing_code", "error">>,
     <<"ready", "error">>, <<"error", "initializing">>}
    \cup {<<s, "disconnected">> : s \in Statuses}

\* C20: the status is always one of the six values, and every change of it
\* is one of the listed transitions.
C20_OnlyListedTransitions ==
    [][\A u \in Users :
          /\ sess'[u].status \in Statuses
          /\ sess'[u].status # sess[u].status
                => <<sess[u].status, sess'[u].status>> \in AllowedChanges]_vars

Count(S) == Cardinality(S)

\* C11: when the handler of a message has returned, each webhook registered
\* for the user has exactly one delivery of that message and there is no
\* other delivery of it; no delivery is attempted more than once; and every
\* delivery goes to a webhook of the user whose message it carries.
C11_OneAttemptPerWebhook ==
    /\ \A u \in Users :
          inbound[u].pc = "returned" =>
             \A url \in Urls :
                Count({i \in PostsOf(u) : posts[i].url = url})
                = Count({k \in 1..Len(file[u].rec.webhooks) :
                            file[u].rec.webhooks[k].url = url})
    /\ \A i \in 1..Len(posts) :
          /\ posts[i].attempts = IF posts[i].state = "pending" THEN 0 ELSE 1
          /\ \E h \in Elems(file[posts[i].user].rec.webhooks) : h.url = posts[i].url
          /\ posts[i].body.to = posts[i].user

C11_Witness ==
    /\ \E i \in 1..Len(posts) :
          posts[i].user = "u1" /\ posts[i].url = "http://w1" /\ posts[i].state = "failed"
    /\ \E i \in 1..Len(posts) : posts[i].user = "u2" /\ posts[i].state = "ok"
    /\ \A u \in Users : inbound[u].pc = "returned"

\* C12: an inbound message event marked as self-originated leaves the
\* records and the deliveries as they are.
C12_SelfOriginatedIgnored ==
    [][\A u \in Users :
          (inbound'[u] # inbound[u] /\ inbound'[u].raw.fromMe)
          => /\ file' = file
             /\ posts' = posts
             /\ inbound'[u].pc = "ignored"]_vars

C12_Witness ==
    \E u \in Users :
        /\ inbound[u].pc = "ignored"
        /\ inbound[u].raw.fromMe
        /\ file[u].state = "ok" /\ file[u].rec.webhooks # <<>>
        /\ \E i \in 1..Len(posts) : posts[i].user = u

(***************************************************************************)
(* SpecOutbound: the session of one user, brought up by one reconnect      *)
(* request, with its disconnect requests and protocol events, and the      *)
(* user's outbound commands.  A command runs from its guard to its return  *)
(* with no session transition in between (for store helpers running beside *)
(* each other see C5 and C7).                                              *)
(***************************************************************************)
\* the session database of a user may hold a device linked by an earlier run
InitOutbound ==
    /\ file = [u \in Users |-> IF u = StatusUser THEN OkFile(HookedData) ELSE MissingFile]
    /\ file0 = file
    /\ task = [t \in Tasks |-> IdleTask]
    /\ nextId = 1
    /\ arrived = [u \in Users |-> <<>>]
    /\ InitRegistry
    /\ sess = [u \in Users |-> NewClientState]
    /\ clients = [c \in Procs |-> NoClient]
    /\ paired \in {[u \in Users |-> FALSE], [u \in Users |-> u = StatusUser]}
    /\ proc = [p \in Procs |-> IdleProc]
    /\ rd = IdleReader
    /\ stable = {}
    /\ inbound = [u \in Users |-> IdleInbound]
    /\ posts = <<>>
    /\ down = {}
    /\ InitCommands
    /\ InitIds
    /\ InitJs
    /\ InitApi
    /\ InitLocks

\* the goroutine of the reconnect request
Reconnect == 1

NextOutbound ==
    \/ \E m \in Methods, ph \in BOOLEAN :
          /\ InitializeBegin(Reconnect, StatusUser, m, ph) /\ UNCHANGED sessionFrame
    \/ \E ok \in BOOLEAN :
          /\ InitializeStore(Reconnect, ok) /\ UNCHANGED sessionFrame
    \/ \E ok \in BOOLEAN :
          /\ InitializeConnectPair(Reconnect, ok) /\ UNCHANGED sessionFrame
    \/ \E ok \in BOOLEAN :
          /\ InitializePairPhone(Reconnect, ok) /\ UNCHANGED sessionFrame
    \/ \E ok \in BOOLEAN :
          /\ InitializeConnectQR(Reconnect, ok) /\ UNCHANGED sessionFrame
    \/ \E ok \in BOOLEAN :
          /\ InitializeConnectReady(Reconnect, ok) /\ UNCHANGED sessionFrame
    \/ QRCode(Reconnect) /\ UNCHANGED sessionFrame
    \/ PairSuccess(Reconnect) /\ UNCHANGED sessionFrame
    \/ Connected(Reconnect) /\ UNCHANGED sessionFrame
    \/ Disconnected(Reconnect) /\ UNCHANGED sessionFrame
    \/ LoggedOut(Reconnect) /\ UNCHANGED sessionFrame
    \/ Disconnect(StatusUser) /\ UNCHANGED sessionFrame
    \/ \E name \in Commands, accepted \in BOOLEAN :
          /\ Command(StatusUser, name, accepted)
          /\ UNCHANGED <<arrived, registryVars, sessionVars, idVars, jsVars, apiVars, lockVars>>

SpecOutbound == InitOutbound /\ [][NextOutbound]_vars

C15_NotReadyIsRejected ==
    [][(cmd'.n # cmd.n /\ sess[cmd'.user].status # "ready")
       => /\ cmd'.result = "not connected"
          /\ cmd'.calls = 0
          /\ file' = file
          /\ sess' = sess]_vars

(***************************************************************************)
(* Commands and inbound events of one user whose session is ready: the     *)
(* state the reconnect goroutine leaves when the stored device is linked   *)
(* and Connect succeeds (Initialize, lines 285-293).                       *)
(***************************************************************************)
ReadyState ==
    [NewClientState EXCEPT !.client = Reconnect, !.status = "ready", !.info = Reconnect]

ReadyClient == [NoClient EXCEPT !.user = StatusUser, !.paired = TRUE, !.alive = TRUE]

ReadyProc == [IdleProc EXCEPT !.user = StatusUser, !.pc = "done", !.ret = NoError]

\* the events that arrive beside the send commands: the echo of a sent
\* message and a plain text
SendEvents == {raw \in RawEvents : raw.conversation = "hello" /\ raw.extended = "nil"}

InitSend ==
    /\ file = [u \in Users |-> IF u = StatusUser THEN OkFile(HookedData) ELSE MissingFile]
    /\ file0 = file
    /\ task = [t \in Tasks |-> IdleTask]
    /\ nextId = 1
    /\ arrived = [u \in Users |-> <<>>]
    /\ InitRegistry
    /\ sess = [u \in Users |-> IF u = StatusUser THEN ReadyState ELSE NewClientState]
    /\ clients = [c \in Procs |-> IF c = Reconnect THEN ReadyClient ELSE NoClient]
    /\ paired = [u \in Users |-> u = StatusUser]
    /\ proc = [p \in Procs |-> IF p = Reconnect THEN ReadyProc ELSE IdleProc]
    /\ rd = IdleReader
    /\ stable = {}
    /\ inbound = [u \in Users |-> IdleInbound]
    /\ posts = <<>>
    /\ down \in {{}, {"http://w1"}}
    /\ InitCommands
    /\ InitIds
    /\ InitJs
    /\ InitApi
    /\ InitLocks

NextSend ==
    \/ \E name \in SendCommands, accepted \in BOOLEAN :
          /\ Command(StatusUser, name, accepted)
          /\ UNCHANGED <<arrived, registryVars, sessionVars, idVars, jsVars, apiVars, lockVars>>
    \/ \E raw \in SendEvents :
          /\ MessageEvent(StatusUser, raw)
          /\ UNCHANGED <<arrived, registryVars, sessionVars, commandVars, idVars, jsVars, apiVars, lockVars>>
    \/ MessageStored(StatusUser) /\ UNCHANGED <<arrived, registryVars, sessionVars, commandVars, idVars, jsVars, apiVars, lockVars>>
    \/ MessageCounted(StatusUser) /\ UNCHANGED <<arrived, registryVars, sessionVars, commandVars, idVars, jsVars, apiVars, lockVars>>
    \/ MessageFanOut(StatusUser) /\ UNCHANGED <<arrived, registryVars, sessionVars, commandVars, idVars, jsVars, apiVars, lockVars>>
    \/ \E i \in 1..Len(posts) :
          Deliver(i) /\ UNCHANGED <<arrived, registryVars, sessionVars, commandVars, idVars, jsVars, apiVars, lockVars>>

SpecSend == InitSend /\ [][NextSend]_vars

\* C14: whatever webhooks are registered, no send-message or
\* send-group-message command starts a webhook delivery.
C14_SentNeverFannedOut ==
    [][(cmd'.n # cmd.n /\ cmd'.name \in SendCommands) => posts' = posts]_vars

C14_Witness ==
    /\ cmd.name \in SendCommands /\ cmd.result = "ok"
    /\ cmd.msg \in Elems(file[cmd.user].rec.messages)
    /\ Len(file[cmd.user].rec.webhooks) = 2
    /\ \E i \in 1..Len(posts) : posts[i].body.type = "received"
    /\ \A i \in 1..Len(posts) : posts[i].body # cmd.msg

(***************************************************************************)
(* The fields of a session against its status (SpecSession)                *)
(***************************************************************************)
\* C21: a step that makes the status ready, or sets the identity of a ready
\* session, leaves the session with the identity set and with no QR image,
\* no pairing code and no last error.
C21_ReadyClearsArtifacts ==
    [][\A u \in Users :
          (/\ sess'[u] # sess[u]
           /\ sess'[u].status = "ready"
           /\ (sess[u].status # "ready" \/ sess'[u].info # sess[u].info))
          => /\ sess'[u].info # 0
             /\ sess'[u].qr = 0
             /\ sess'[u].pairingCode = 0
             /\ sess'[u].lastError = NoError]_vars

\* C22: whenever the status is error, lastError is set and the QR image, the
\* pairing code and the identity are empty.
C22_ErrorHasOnlyLastError ==
    \A u \in Users :
       sess[u].status = "error"
       => /\ sess[u].lastError # NoError
          /\ sess[u].qr = 0
          /\ sess[u].pairingCode = 0
          /\ sess[u].info = 0

\* C23: a session in status error changes its status only to initializing
\* (a reconnect) or to disconnected (a disconnect or logout), never to qr,
\* pairing_code or ready.
C23_ErrorLeftOnlyOnRequest ==
    [][\A u \in Users :
          sess[u].status = "error"
          => sess'[u].status \in {"error", "initializing", "disconnected"}]_vars

\* C24: the QR image and the pairing code are never both set, the QR image
\* is set only in status qr and the pairing code only in status pairing_code.
C24_ArtifactsBoundToStatus ==
    \A u \in Users :
       /\ ~(sess[u].qr # 0 /\ sess[u].pairingCode # 0)
       /\ sess[u].qr # 0 => sess[u].status = "qr"
       /\ sess[u].pairingCode # 0 => sess[u].status = "pairing_code"

\* C25: whenever the status is not ready the identity is empty.
C25_IdentityOnlyInReady ==
    \A u \in Users : sess[u].status # "ready" => sess[u].info = 0

\* C26: whenever the status is not error lastError is empty.
C26_LastErrorOnlyInError ==
    \A u \in Users : sess[u].status # "error" => sess[u].lastError = NoError

(***************************************************************************)
(* Sessions with the failure of the device store: the steps of SpecSession *)
(* while the process runs, and the panic that ends it.                     *)
(***************************************************************************)
NextFailure ==
    \/ ~Terminated /\ NextSession
    \/ \E p \in Procs : ~Terminated /\ InitializePanic(p) /\ UNCHANGED sessionFrame

SpecFailure == InitSession /\ [][NextFailure]_vars

\* C27: a failure of the library inside one user's Initialize or event
\* handling never ends the process and never changes the session of a user
\* for whom nothing was requested.
C27_FailureStaysInSession ==
    /\ ~Terminated
    /\ \A u \in Users :
          (\A p \in Procs : proc[p].pc = "idle" \/ proc[p].user # u)
          => sess[u] = NewClientState

(***************************************************************************)
(* Operations called with every id of the alphabet                         *)
(***************************************************************************)
NextIds ==
    \E op \in IdOperations, userId \in Ids, exists \in BOOLEAN :
       /\ IdOperation(op, userId, exists)
       /\ UNCHANGED <<storeVars, arrived, registryVars, sessionVars, ingestVars,
                      commandVars, jsVars, apiVars, lockVars>>

SpecIds == InitSession /\ [][NextIds]_vars

\* the ids the interface accepts: not empty, letters, digits and hyphens
ValidId(userId) ==
    userId # <<>> /\ \A i \in 1..Len(userId) : userId[i] \in {"a", "7", "-"}

\* C28: an operation called with an id that is empty or has a character
\* outside [A-Za-z0-9-] is rejected and touches no file or directory.
C28_InvalidIdTouchesNothing ==
    (idCall.op # "none" /\ ~ValidId(idCall.id))
    => idCall.rejected /\ idCall.touched = {}

(***************************************************************************)
(* The store helpers over every kind of record file, also one that cannot  *)
(* be parsed                                                               *)
(***************************************************************************)
InitLoad ==
    /\ file \in {f \in [Users -> InitFiles \cup {CorruptFile, OkFile(GroupedData)}] :
                    \A u \in Users \ {StatusUser} : f[u] = MissingFile}
    /\ file0 = file
    /\ task = [t \in Tasks |-> IdleTask]
    /\ nextId = 1
    /\ arrived = [u \in Users |-> <<>>]
    /\ InitRegistry
    /\ InitSessions
    /\ InitInbound
    /\ InitCommands
    /\ InitIds
    /\ InitJs
    /\ InitApi
    /\ InitLocks

\* the helpers of one user, each on its own goroutine
NextLoad ==
    \/ \E t \in Tasks :
          StartPush(t, StatusUser) /\ UNCHANGED <<arrived, registryVars, sessionVars, ingestVars, commandVars, idVars, jsVars, apiVars, lockVars>>
    \/ \E t \in Tasks :
          StartClear(t, StatusUser) /\ UNCHANGED <<arrived, registryVars, sessionVars, ingestVars, commandVars, idVars, jsVars, apiVars, lockVars>>
    \/ \E t \in Tasks :
          StartRegister(t, StatusUser, "http://w2") /\ UNCHANGED <<arrived, registryVars, sessionVars, ingestVars, commandVars, idVars, jsVars, apiVars, lockVars>>
    \/ \E t \in Tasks : \E id \in KnownHookIds(StatusUser) :
          StartUnregister(t, StatusUser, id) /\ UNCHANGED <<arrived, registryVars, sessionVars, ingestVars, commandVars, idVars, jsVars, apiVars, lockVars>>
    \/ \E t \in Tasks : LoadUserStep(t) /\ UNCHANGED <<arrived, registryVars, sessionVars, ingestVars, commandVars, idVars, jsVars, apiVars, lockVars>>
    \/ \E t \in Tasks : InitUserStep(t) /\ UNCHANGED <<arrived, registryVars, sessionVars, ingestVars, commandVars, idVars, jsVars, apiVars, lockVars>>
    \/ \E t \in Tasks : SaveUserStep(t) /\ UNCHANGED <<arrived, registryVars, sessionVars, ingestVars, commandVars, idVars, jsVars, apiVars, lockVars>>

SpecLoad == InitLoad /\ [][NextLoad]_vars

\* C29: whatever is on disk (no file, an unparsable file, a record whose
\* webhooks were saved as null by UnregisterWebhook), the record LoadUser
\* returns has no null messages, groups or webhooks.
C29_LoadNeverReturnsNull ==
    /\ \A u \in Users : LoadResult(file[u]).nulls = {}
    /\ \A t \in Tasks : task[t].pc \in {"save", "ret"} => task[t].data.nulls = {}

\* a helper has loaded the record that UnregisterWebhook saved with null
\* webhooks after it removed the last one
C29_Witness ==
    \E u \in Users, t1, t2 \in Tasks :
       /\ file0[u] = OkFile(SeededData)
       /\ task[t1].user = u /\ task[t1].op = "UnregisterWebhook" /\ task[t1].pc = "ret"
       /\ file[u].state = "ok" /\ file[u].rec.nulls = {"webhooks"}
       /\ task[t2].user = u /\ task[t2].op = "RegisterWebhook" /\ task[t2].pc = "save"
       /\ task[t2].data.webhooks = <<>>
       /\ task[t2].data.nulls = {}

(***************************************************************************)
(* The JavaScript store, starting with no record on disk                   *)
(***************************************************************************)
InitJsStore ==
    /\ file = [u \in Users |-> MissingFile]
    /\ file0 = file
    /\ task = [t \in Tasks |-> IdleTask]
    /\ nextId = 1
    /\ arrived = [u \in Users |-> <<>>]
    /\ InitRegistry
    /\ InitSessions
    /\ InitInbound
    /\ InitCommands
    /\ InitIds
    /\ InitJs
    /\ InitApi
    /\ InitLocks

NextJsStore ==
    \/ \E u \in Users :
          JsGetUser(u) /\ UNCHANGED <<arrived, registryVars, sessionVars, ingestVars, commandVars, idVars, apiVars, lockVars>>
    \/ \E u \in Users, key \in {"messages", "webhooks"} :
          JsPushToUser(u, key) /\ UNCHANGED <<arrived, registryVars, sessionVars, ingestVars, commandVars, idVars, apiVars, lockVars>>
    \/ \E u \in Users, k \in StatKeys :
          JsIncrementStatUser(u, k) /\ UNCHANGED <<arrived, registryVars, sessionVars, ingestVars, commandVars, idVars, apiVars, lockVars>>
    \/ \E u \in Users :
          JsClearUserBotData(u) /\ UNCHANGED <<arrived, registryVars, sessionVars, ingestVars, commandVars, idVars, apiVars, lockVars>>

SpecJsStore == InitJsStore /\ [][NextJsStore]_vars

\* C30: a record made on the first reference to a user id is zero-valued,
\* whatever was done before on any user's record, and the defaults used for
\* later records are never altered.
C30_DefaultsStayZero ==
    /\ defaults = DefaultUserData
    /\ \A u \in Users : made[u].done => made[u].rec = DefaultUserData

(***************************************************************************)
(* Further claims about the store helpers under concurrency (SpecStore)    *)
(***************************************************************************)
\* the step is the SaveUser of a ClearUserBotData of user u
ResetStep(u) ==
    \E t \in Tasks : /\ task[t].user = u
                     /\ task[t].op = "ClearUserBotData"
                     /\ task[t].pc = "save"
                     /\ task'[t].pc = "ret"

\* C31: from one persisted state to the next no counter of a user decreases,
\* except where the step is the save of an explicit reset; for every
\* interleaving of the helpers.
C31_CountersNeverDecrease ==
    [][\A u \in Users :
          ResetStep(u) \/ \A k \in StatKeys :
                             file'[u].rec.stats[k] >= file[u].rec.stats[k]]_vars

(***************************************************************************)
(* GET /api/messages over records of every length and every limit          *)
(***************************************************************************)
InitMessages ==
    /\ file \in {f \in [Users -> StoredFiles] :
                    \A u \in Users \ {StatusUser} : f[u] = MissingFile}
    /\ file0 = file
    /\ task = [t \in Tasks |-> IdleTask]
    /\ nextId = 1
    /\ arrived = [u \in Users |-> <<>>]
    /\ InitRegistry
    /\ InitSessions
    /\ InitInbound
    /\ InitCommands
    /\ InitIds
    /\ InitJs
    /\ InitApi
    /\ InitLocks

NextMessages ==
    \E q \in Limits :
       /\ GetMessages(StatusUser, q)
       /\ UNCHANGED <<arrived, registryVars, sessionVars, ingestVars, commandVars,
                      idVars, jsVars, reply, lockVars>>

SpecMessages == InitMessages /\ [][NextMessages]_vars

\* the limit a request asks for: its number, 50 when it has none
Asked(q) ==
    IF q # <<>> /\ \A i \in 1..Len(q) : q[i] \in LimitDigits
    THEN Decimal(q) ELSE DefaultLimit

\* the last n of the list, newest first
MostRecent(msgs, n) ==
    Reversed(SubSeq(msgs, Len(msgs) - Min(n, Len(msgs)) + 1, Len(msgs)))

\* C32: the answer to GET messages?limit=N is the last min(N, L) stored
\* messages, newest first, and a request without a limit or with one that is
\* no number is answered as N = 50; by the JS server and by the Go server.
C32_MostRecentNewestFirst ==
    page.user # "none" =>
       LET want == MostRecent(LoadResult(file[page.user]).messages, Asked(page.limit))
       IN  page.js = want /\ page.go = want

\* the same for the Go server alone
C32_GoMostRecentNewestFirst ==
    page.user # "none" =>
       page.go = MostRecent(LoadResult(file[page.user]).messages, Asked(page.limit))

(***************************************************************************)
(* POST /api/reconnect: the handler and the goroutine it starts, up to the *)
(* credential exchange.  In SpecReconnectLive only the handler is          *)
(* scheduled fairly: the connect operation may take for ever.  The         *)
(* requests come one after the other (for overlapping ones see C19).       *)
(***************************************************************************)
replyFrame == <<storeVars, arrived, registryVars, sessionVars, ingestVars,
                commandVars, idVars, jsVars, page, lockVars>>

\* request q is not made yet, or it is answered and its Initialize has returned
Settled(q) ==
    reply[q].state = "none" \/ (reply[q].state = "sent" /\ proc[q].pc = "done")

NextReconnect ==
    \/ \E p \in Procs, m \in Methods :
          /\ \A q \in Procs \ {p} : Settled(q)
          /\ PostReconnect(p, m)
          /\ UNCHANGED replyFrame
    \/ \E p \in Procs : ReconnectRespond(p) /\ UNCHANGED replyFrame
    \/ \E p \in Procs, ph \in BOOLEAN :
          /\ Spawned(p)
          /\ InitializeBegin(p, StatusUser, reply[p].method, ph)
          /\ UNCHANGED sessionFrame
    \/ \E p \in Procs, ok \in BOOLEAN :
          InitializeStore(p, ok) /\ UNCHANGED sessionFrame
    \/ \E p \in Procs, ok \in BOOLEAN :
          InitializeConnectPair(p, ok) /\ UNCHANGED sessionFrame
    \/ \E p \in Procs, ok \in BOOLEAN :
          InitializePairPhone(p, ok) /\ UNCHANGED sessionFrame
    \/ \E p \in Procs, ok \in BOOLEAN :
          InitializeConnectQR(p, ok) /\ UNCHANGED sessionFrame
    \/ \E c \in Procs : QRCode(c) /\ UNCHANGED sessionFrame

SpecReconnect == InitSession /\ [][NextReconnect]_vars

SpecReconnectLive ==
    /\ SpecReconnect
    /\ \A p \in Procs : WF_vars(ReconnectRespond(p) /\ UNCHANGED replyFrame)

\* C33: POST reconnect does not wait for the connect operation: every
\* request is answered also when Initialize never finishes, and the answer
\* is the acceptance of the request whatever Initialize does.
C33_ReconnectAnswersAtOnce ==
    /\ [](\A p \in Procs :
             reply[p].state = "sent" => reply[p].body = Accepted(reply[p].method))
    /\ \A p \in Procs : (reply[p].state = "spawned") ~> (reply[p].state = "sent")

\* a request was answered while its Initialize was opening the device store,
\* and one whose Initialize has failed has the same answer
C33_Witness ==
    \E p, q \in Procs :
       /\ reply[p].state = "sent" /\ proc[p].pc = "store"
       /\ reply[q].state = "sent" /\ proc[q].pc = "done" /\ proc[q].ret = "err"
       /\ reply[q].body = Accepted(reply[q].method)

\* C34: a send, join or leave command that the protocol client fails returns
\* the error and nothing else happens: no message is appended, no counter
\* is incremented, no delivery is started and the session is unchanged.
C34_FailedCommandChangesNothing ==
    [][(cmd'.n # cmd.n /\ cmd'.result = "error")
       => /\ cmd'.msg = NoMsg
          /\ file' = file
          /\ posts' = posts
          /\ sess' = sess]_vars

\* the protocol client has failed a command that counts, for a user with a
\* stored message and a counter above zero
C34_Witness ==
    /\ cmd.result = "error"
    /\ cmd.calls = 1
    /\ StatOf(cmd.name) # "none"
    /\ file[cmd.user].state = "ok"
    /\ file[cmd.user].rec.messages # <<>>
    /\ file[cmd.user].rec.stats["messagesSent"] > 0

\* C35: clear_bot_data leaves the groups list of the record as it was: the
\* save of a ClearUserBotData writes the groups list that a load of the
\* record returned before it.
C35_ResetKeepsGroups ==
    [][\A u \in Users :
          ResetStep(u) => LoadResult(file'[u]).groups = LoadResult(file[u]).groups]_vars

\* a record with a group has been reset: its messages are gone, the group is
\* still there
C35_Witness ==
    \E t \in Tasks :
       /\ task[t].op = "ClearUserBotData" /\ task[t].pc = "ret"
       /\ file0[task[t].user] = OkFile(GroupedData)
       /\ file[task[t].user].rec.messages = <<>>
       /\ file[task[t].user].rec.groups = GroupedData.groups

(***************************************************************************)
(* Webhooks registered and unregistered through both stores, one call      *)
(* after the other (for helpers that overlap see C5 and C8).               *)
(***************************************************************************)
\* an id that no webhook has
UnknownId == MaxAppends + 102

\* the ids of the unregister requests for u: none (0), those of u's
\* webhooks, and one that is not registered
UnregisterIds(u) == KnownHookIds(u) \cup {UnknownId}

\* the urls that go with an id: a request with an id needs none
UnregisterUrls(id) == IF id = 0 THEN Urls ELSE {""}

InitHooks ==
    /\ file \in {f \in [Users -> {MissingFile, OkFile(HookedData), OkFile(GroupedData)}] :
                    \A u \in Users \ {StatusUser} : f[u] = MissingFile}
    /\ file0 = file
    /\ task = [t \in Tasks |-> IdleTask]
    /\ nextId = 1
    /\ arrived = [u \in Users |-> <<>>]
    /\ InitRegistry
    /\ InitSessions
    /\ InitInbound
    /\ InitCommands
    /\ InitIds
    /\ InitJs
    /\ InitApi
    /\ InitLocks

hooksFrame == <<arrived, registryVars, sessionVars, ingestVars, commandVars,
                idVars, apiVars, lockVars>>

GoRegister(u, url) ==
    /\ nextId <= MaxAppends
    /\ nextId' = nextId + 1
    /\ RegisterWebhook(u, Hook(nextId, url))
    /\ UNCHANGED <<task, file0, jsVars, hooksFrame>>

GoUnregister(u, id) ==
    /\ UnregisterWebhook(u, id)
    /\ UNCHANGED <<task, nextId, file0, jsVars, hooksFrame>>

NextHooks ==
    \/ \E u \in Users, url \in Urls : GoRegister(u, url)
    \/ \E u \in Users : \E id \in UnregisterIds(u) : GoUnregister(u, id)
    \/ \E u \in Users : JsPushToUser(u, "webhooks") /\ UNCHANGED hooksFrame
    \/ \E u \in Users : \E id \in UnregisterIds(u) : \E url \in UnregisterUrls(id) :
          JsUnregister(u, id, url) /\ UNCHANGED hooksFrame

SpecHooks == InitHooks /\ [][NextHooks]_vars

\* after is before without the webhooks that have the id or, when no id is
\* given, the url; an absent match leaves before as it is
RemovedExactly(before, after, id, url) ==
    LET hit(w) == IF id # 0 THEN w.id = id ELSE w.url = url
        miss(w) == ~hit(w)
    IN  /\ after.webhooks = SelectSeq(before.webhooks, miss)
        /\ after.messages = before.messages
        /\ after.groups = before.groups
        /\ after.stats = before.stats
        /\ (\A i \in 1..Len(before.webhooks) : miss(before.webhooks[i]))
           => after = before

Stale(c) ==
    /\ clients[c].user \in Users
    /\ sess[clients[c].user].client # c

\* the step is the handling of an event that client c delivered
EventOf(c) ==
    \/ QRCode(c)
    \/ Connected(c)
    \/ Disconnected(c)
    \/ LoggedOut(c)

\* C37: an event delivered by a protocol client that is not the current
\* client of the session (replaced by a later reconnect, or released by a
\* disconnect) changes neither the session nor the user's record.
C37_StaleEventsIgnored ==
    [][\A c \in Procs :
          (Stale(c) /\ EventOf(c)) => (sess' = sess /\ file' = file)]_vars

(***************************************************************************)
(* Two users side by side: each with a record on disk, a reconnect         *)
(* request, the events of its client, its disconnect and its commands.     *)
(***************************************************************************)
\* one reconnect request for each user, and the user whose request
\* goroutine p serves
TenantProcs == {p \in Procs : p <= Cardinality(Users)}
UserOf(p) == IF p = 1 THEN "u1" ELSE "u2"

\* u1 has no linked device yet, u2 has one from an earlier run
TenantPaired == [u \in Users |-> u # StatusUser]

TenantCommands == {"SendMessage"}

InitTenants ==
    /\ file = [u \in Users |-> OkFile(HookedData)]
    /\ file0 = file
    /\ task = [t \in Tasks |-> IdleTask]
    /\ nextId = 1
    /\ arrived = [u \in Users |-> <<>>]
    /\ InitRegistry
    /\ sess = [u \in Users |-> NewClientState]
    /\ clients = [c \in Procs |-> NoClient]
    /\ paired = TenantPaired
    /\ proc = [p \in Procs |-> IdleProc]
    /\ rd = IdleReader
    /\ stable = {}
    /\ inbound = [u \in Users |-> IdleInbound]
    /\ posts = <<>>
    /\ down = {}
    /\ InitCommands
    /\ InitIds
    /\ InitJs
    /\ InitApi
    /\ InitLocks

TenantCommand(u, name, accepted) ==
    /\ Command(u, name, accepted)
    /\ UNCHANGED <<arrived, registryVars, sessionVars, idVars, jsVars, apiVars, lockVars>>

NextTenants ==
    \/ \E p \in TenantProcs, m \in Methods, ph \in BOOLEAN :
          InitializeBegin(p, UserOf(p), m, ph) /\ UNCHANGED sessionFrame
    \/ \E p \in TenantProcs, ok \in BOOLEAN :
          InitializeStore(p, ok) /\ UNCHANGED sessionFrame
    \/ \E p \in TenantProcs, ok \in BOOLEAN :
          InitializeConnectPair(p, ok) /\ UNCHANGED sessionFrame
    \/ \E p \in TenantProcs, ok \in BOOLEAN :
          InitializePairPhone(p, ok) /\ UNCHANGED sessionFrame
    \/ \E p \in TenantProcs, ok \in BOOLEAN :
          InitializeConnectQR(p, ok) /\ UNCHANGED sessionFrame
    \/ \E p \in TenantProcs, ok \in BOOLEAN :
          InitializeConnectReady(p, ok) /\ UNCHANGED sessionFrame
    \/ \E c \in TenantProcs : QRCode(c) /\ UNCHANGED sessionFrame
    \/ \E c \in TenantProcs : PairSuccess(c) /\ UNCHANGED sessionFrame
    \/ \E c \in TenantProcs : Connected(c) /\ UNCHANGED sessionFrame
    \/ \E c \in TenantProcs : Disconnected(c) /\ UNCHANGED sessionFrame
    \/ \E c \in TenantProcs : LoggedOut(c) /\ UNCHANGED sessionFrame
    \/ \E u \in Users : Disconnect(u) /\ UNCHANGED sessionFrame
    \/ \E u \in Users, name \in TenantCommands, accepted \in BOOLEAN :
          TenantCommand(u, name, accepted)

SpecTenants == InitTenants /\ [][NextTenants]_vars

\* the step is a command, a step of Initialize or the handling of an event
\* for user a
StepFor(a) ==
    \/ \E p \in TenantProcs, m \in Methods, ph \in BOOLEAN :
          UserOf(p) = a /\ InitializeBegin(p, a, m, ph)
    \/ \E p \in TenantProcs, ok \in BOOLEAN :
          /\ proc[p].pc # "idle" /\ proc[p].user = a
          /\ \/ InitializeStore(p, ok)
             \/ InitializeConnectPair(p, ok)
             \/ InitializePairPhone(p, ok)
             \/ InitializeConnectQR(p, ok)
             \/ InitializeConnectReady(p, ok)
    \/ \E c \in TenantProcs :
          /\ clients[c].user = a
          /\ EventOf(c) \/ PairSuccess(c)
    \/ Disconnect(a)
    \/ \E name \in TenantCommands, accepted \in BOOLEAN : TenantCommand(a, name, accepted)

\* C38: a command, an Initialize step, an event or the store helpers they
\* call for user A leave the session and the persisted record of every
\* other user B as they were.
C38_UsersAreIsolated ==
    [][\A a \in Users, b \in Users :
          (a # b /\ StepFor(a)) => (sess'[b] = sess[b] /\ file'[b] = file[b])]_vars

\* u1 has been disconnected and its record reset while u2 is ready and has
\* sent a message: u2's record holds it, with its webhooks
C38_Witness ==
    /\ sess["u1"].status = "disconnected"
    /\ file["u1"].rec.messages = <<>>
    /\ sess["u2"].status = "ready"
    /\ Len(file["u2"].rec.messages) = 2
    /\ file["u2"].rec.webhooks = HookedData.webhooks

(***************************************************************************)
(* The store and registry locks under concurrent calls.  In SpecLocksLive  *)
(* every goroutine that can take a step eventually takes one.              *)
(***************************************************************************)
\* as many goroutines as there are users: all on one user, or one on each
LockTasks == {t \in Tasks : t <= Cardinality(Users)}

lockFrame == <<task, nextId, file0, arrived, sessionVars, ingestVars, commandVars,
               idVars, jsVars, apiVars>>

NextLocks ==
    \/ \E t \in LockTasks, op \in LockOps, u \in Users :
          LockCall(t, op, u) /\ UNCHANGED lockFrame
    \/ \E t \in LockTasks : LockGuc(t) /\ UNCHANGED lockFrame
    \/ \E t \in LockTasks : LockGucReturn(t) /\ UNCHANGED lockFrame
    \/ \E t \in LockTasks : GulRLock(t) /\ UNCHANGED lockFrame
    \/ \E t \in LockTasks : GulReadUnlock(t) /\ UNCHANGED lockFrame
    \/ \E t \in LockTasks : GulLock(t) /\ UNCHANGED lockFrame
    \/ \E t \in LockTasks : GulLocked(t) /\ UNCHANGED lockFrame
    \/ \E t \in LockTasks : GulCreateUnlock(t) /\ UNCHANGED lockFrame
    \/ \E t \in LockTasks : LoadRLock(t) /\ UNCHANGED lockFrame
    \/ \E t \in LockTasks : LoadStat(t) /\ UNCHANGED lockFrame
    \/ \E t \in LockTasks : LoadReturn(t) /\ UNCHANGED lockFrame
    \/ \E t \in LockTasks : WriteLock(t) /\ UNCHANGED lockFrame
    \/ \E t \in LockTasks : WriteLocked(t) /\ UNCHANGED lockFrame
    \/ \E t \in LockTasks : InitUserWrite(t) /\ UNCHANGED lockFrame
    \/ \E t \in LockTasks : SaveUserWrite(t) /\ UNCHANGED lockFrame

SpecLocks == InitSession /\ [][NextLocks]_vars

SpecLocksLive ==
    /\ SpecLocks
    /\ \A t \in LockTasks : WF_vars(LockStep(t) /\ UNCHANGED lockFrame)

\* no lock of the store or the registry is held by or waited for by t
HoldsNothing(t) ==
    /\ ~Involved(userLocks.mx, t)
    /\ \A u \in Users : ~Involved(userLock[u], t)
    /\ t \notin clientsLock.readers /\ clientsLock.writer # t

\* C39: store and registry locking never deadlocks: every call, whatever
\* calls run beside it, eventually returns, and it holds no lock when it
\* has returned.
C39_LocksNeverDeadlock ==
    /\ [](\A t \in LockTasks : lockTask[t].pc \in {"idle", "done"} => HoldsNothing(t))
    /\ \A t \in LockTasks : (lockTask[t].pc # "idle") ~> (lockTask[t].pc = "done")

\* a LoadUser that found no file has released its read lock and waits in
\* InitUser for the write lock, which another call of the same user holds
C39_Witness ==
    \E t \in LockTasks, s \in LockTasks :
       /\ lockTask[t].fn = "InitUser" /\ lockTask[t].inLoad /\ lockTask[t].pc = "wait"
       /\ userLock[lockTask[t].user].writer = s
       /\ s # t

\* C40: a disconnect command for a user who has no protocol client is
\* rejected and changes nothing: the session and the record on disk are as
\* they were before the call.
C40_DisconnectWithoutClientChangesNothing ==
    [][\A u \in Users :
          (sess[u].client = 0 /\ Disconnect(u))
          => (sess' = sess /\ file' = file)]_vars
====
